---- MODULE Spec2Model ----
(***************************************************************************)
(* Job lifecycle handler of the autoreduction queue processor              *)
(* (queue_processors/queue_processor/handle_message.py).                   *)
(*                                                                         *)
(* The handlers are written as operators on a context record (the store,  *)
(* the message object being handled, what was published, whether an       *)
(* exception escaped); one action per handler applies the operator to the *)
(* state.  Optional values (Python None) are sequences of length <= 1.     *)
(***************************************************************************)
EXTENDS Integers, Sequences, FiniteSets, TLC

\* ------------------------------------------------------------------ bounds
\* messages delivered in one behaviour that starts from the empty store or
\* from a store holding one run
MaxDeliveries == 2
\* messages delivered in one behaviour that starts from a store holding a
\* chain of run versions
MaxRetryDeliveries == 1
\* deliveries in a behaviour that follows one run through the worker
MaxLiveDeliveries == 3

\* health checks counted in one behaviour (the count stops there, the loop
\* does not)
MaxChecks == 3

\* longest rb_number text given to is_valid_rb
MaxRBLen == 3
\* greatest magnitude of a numeric rb_number given to is_valid_rb
MaxRB == 3

\* ------------------------------------------------------- program constants
\* "if max_version <= 4" in reduction_error
RetryLimit == 4
\* "Seconds to Milliseconds" in retry_run
MillisPerSecond == 1000

\* --------------------------------------------------------------- optionals
None == <<>>
Some(x) == <<x>>
IsNone(o) == o = <<>>
\* a text attribute that is None
NoneStr == "<None>"
\* datetime.datetime.utcnow()
utcnow == "utcnow"

\* ------------------------------------------------------------- RB numbers
\* an rb_number as it arrives in a decoded message: a Python int, a str,
\* None, a list, or a float (finite, with integer part i; infinite; not a
\* number)
IntVal(n) == [tag |-> "int", i |-> n, s |-> <<>>]
StrVal(s) == [tag |-> "str", i |-> 0, s |-> s]
NoneVal == [tag |-> "none", i |-> 0, s |-> <<>>]
ListVal == [tag |-> "list", i |-> 0, s |-> <<>>]
FloatVal(n) == [tag |-> "float", i |-> n, s |-> <<>>]
InfVal == [tag |-> "inf", i |-> 1, s |-> <<>>]
MinusInfVal == [tag |-> "inf", i |-> 0 - 1, s |-> <<>>]
NanVal == [tag |-> "nan", i |-> 0, s |-> <<>>]

Digits == <<"0", "1", "2", "3", "4", "5", "6", "7", "8", "9">>
IsDigit(c) == \E d \in 1..10 : Digits[d] = c
DigitVal(c) == (CHOOSE d \in 1..10 : Digits[d] = c) - 1

RECURSIVE StripLeft(_)
StripLeft(s) == IF s # <<>> /\ Head(s) = " " THEN StripLeft(Tail(s)) ELSE s
RECURSIVE StripRight(_)
StripRight(s) ==
    IF s # <<>> /\ s[Len(s)] = " " THEN StripRight(SubSeq(s, 1, Len(s) - 1))
    ELSE s
RECURSIVE DigitsValue(_)
DigitsValue(s) ==
    IF s = <<>> THEN 0
    ELSE 10 * DigitsValue(SubSeq(s, 1, Len(s) - 1)) + DigitVal(s[Len(s)])

\* int(str): surrounding blanks, an optional sign, one or more digits;
\* None stands for ValueError
ParseInt(str) ==
    LET t == StripRight(StripLeft(str))
        signed == t # <<>> /\ Head(t) \in {"-", "+"}
        body == IF signed THEN Tail(t) ELSE t
    IN  IF body = <<>> \/ \E k \in 1..Len(body) : ~IsDigit(body[k])
        THEN None
        ELSE Some(IF signed /\ Head(t) = "-" THEN 0 - DigitsValue(body)
                  ELSE DigitsValue(body))

\* the outcome of a Python call: the value returned, or the exception raised
Returned(value) == [exception |-> "none", value |-> value]
Raised(exception) == [exception |-> exception, value |-> None]

\* int(rb_number): an int is itself, a str is parsed, a finite float is
\* truncated; a float that is not a number is a ValueError, an infinite one
\* an OverflowError, anything else a TypeError
ToInt(v) ==
    CASE v.tag = "int" -> Returned(v.i)
      [] v.tag = "str" -> IF IsNone(ParseInt(v.s)) THEN Raised("ValueError")
                          ELSE Returned(ParseInt(v.s)[1])
      [] v.tag = "float" -> Returned(v.i)
      [] v.tag = "nan" -> Raised("ValueError")
      [] v.tag = "inf" -> Raised("OverflowError")
      [] OTHER -> Raised("TypeError")

\* (variant: zero counts as a valid RB number)
is_valid_rb_from_zero(rb_number) ==
    LET n == ToInt(rb_number)
    IN  IF n.exception = "none"
        THEN IF n.value >= 0 THEN Returned(None)
             ELSE Returned(Some("RB Number is less than or equal to 0"))
        ELSE IF n.exception \in {"ValueError", "TypeError"}
             THEN Returned(Some("RB Number is a string"))
             ELSE Raised(n.exception)
\* the error message, or None if the RB is valid; an exception of int()
\* other than ValueError and TypeError is not handled
is_valid_rb(rb_number) ==
    LET n == ToInt(rb_number)
    IN  IF n.exception = "none"
        THEN IF n.value > 0 THEN Returned(None)
             ELSE Returned(Some("RB Number is less than or equal to 0"))
        ELSE IF n.exception \in {"ValueError", "TypeError"}
             THEN Returned(Some("RB Number is a string"))
             ELSE Raised(n.exception)

\* ------------------------------------------------------------ input sets
Instruments == {"WISH"}
RunNumbers == {1, 2}
RBs == {IntVal(5), IntVal(0)}
Versions == 0..(RetryLimit + 2)
Actors == {0, 7}
RetryIns == {None, Some(30)}
ScriptTexts == {None, Some("script")}
DataPath == "/isis/data.nxs"
ReductionData == {None, Some(<<>>), Some(<<"a.nxs", "b.nxs">>)}
\* message, reduction_log and admin_log of an inbound message
Texts ==
    { [message |-> "boom", reduction_log |-> "rlog", admin_log |-> "alog"],
      [message |-> NoneStr, reduction_log |-> NoneStr, admin_log |-> NoneStr] }

\* model.message.job.Message
Message(run_number, run_version, rb_number, instrument, text, reduction_data, retry_in, started_by) ==
    [ run_number |-> run_number, run_version |-> run_version,
      rb_number |-> rb_number, instrument |-> instrument, data |-> DataPath,
      message |-> text.message, reduction_log |-> text.reduction_log,
      admin_log |-> text.admin_log, reduction_data |-> reduction_data,
      retry_in |-> retry_in, started_by |-> started_by,
      reduction_script |-> None, reduction_arguments |-> None ]

NoText == [message |-> NoneStr, reduction_log |-> NoneStr, admin_log |-> NoneStr]

VARIABLES
    instruments,          \* name -> [exists, is_active, is_paused]
    experiments,          \* the RB numbers that have an Experiment record
    runs,                 \* ReductionRun records, in id order
    data_locations,       \* DataLocation records
    reduction_locations,  \* ReductionLocation records
    scheduled,            \* delayed messages the broker holds for later
    result,               \* what the last handler call did
    budget                \* deliveries left in this behaviour

vars == << instruments, experiments, runs, data_locations,
           reduction_locations, scheduled, result, budget >>

\* ---------------------------------------------------------------- context
\* What a handler call works on: the store, the message object it was given
\* (handlers assign to its attributes), the messages it has published, how
\* many times it has called the client to publish, the most severe level it
\* has logged, whether an exception has escaped, and the id of the run it
\* found or created (0: none).  failing_save is the save of a
\* ReductionLocation the store will refuse during the call (0: none) and
\* failed_save the one it has refused.
Context(m) ==
    [ instruments |-> instruments, experiments |-> experiments, runs |-> runs,
      data_locations |-> data_locations,
      reduction_locations |-> reduction_locations,
      message |-> m, sent |-> <<>>, attempts |-> 0, log |-> "info",
      raised |-> FALSE, run |-> 0, failing_save |-> 0, failed_save |-> 0 ]

logger_error(c) == [c EXCEPT !.log = "error"]
logger_warning(c) == [c EXCEPT !.log = IF @ = "error" THEN @ ELSE "warning"]

\* ------------------------------------------------------------------ store
SameTriple(r, q) ==
    /\ r.experiment = q.experiment
    /\ r.run_number = q.run_number
    /\ r.run_version = q.run_version

\* (variant: a store that does not enforce the unique triple)
StoreAcceptsAnything(rs, run) == TRUE
\* The store holds at most one run per (experiment, run_number,
\* run_version): saving a second one is refused with an error.
StoreAccepts(rs, run) == \A k \in 1..Len(rs) : ~SameTriple(rs[k], run)

\* db_access.save_record of a new ReductionRun
save_new_run(c, run) ==
    IF StoreAccepts(c.runs, run)
    THEN [c EXCEPT !.runs = Append(@, run), !.run = Len(c.runs) + 1]
    ELSE [c EXCEPT !.raised = TRUE]

\* db_access.get_experiment(rb_number): is there such an experiment
get_experiment(c, rb_number) == rb_number \in c.experiments

\* db_access.get_experiment(rb_number, create=True)
get_or_create_experiment(c, rb_number) ==
    [c EXCEPT !.experiments = @ \cup {rb_number}]

\* db_access.get_instrument(name, create=True)
get_or_create_instrument(c, name) ==
    IF c.instruments[name].exists THEN c
    ELSE [c EXCEPT !.instruments[name] =
              [exists |-> TRUE, is_active |-> FALSE, is_paused |-> FALSE]]

\* ------------------------------------------------------- helper methods
\* (variant: the instrument is returned as it was found or created)
get_db_inst_as_found(c, instrument_name) ==
    get_or_create_instrument(c, instrument_name)
\* the instrument of that name, created if absent and activated if inactive
get_db_inst(c, instrument_name) ==
    LET c1 == get_or_create_instrument(c, instrument_name)
    IN  IF ~c1.instruments[instrument_name].is_active
        THEN [c1 EXCEPT !.instruments[instrument_name].is_active = TRUE]
        ELSE c1

\* "By returning -1 callers can blindly increment the version"
NoRunSentinel == 0 - 1
\* (variant: the runs of the run number under every experiment count)
get_last_run_version_of_run_number(rs, run_no, experiment) ==
    LET vs == { rs[k].run_version :
                  k \in { j \in 1..Len(rs) : rs[j].run_number = run_no } }
    IN  IF vs = {} THEN 0 - 1
        ELSE CHOOSE v \in vs : \A w \in vs : w <= v
\* (variant: the number of runs stored for the pair)
get_run_count(rs, run_no, experiment) ==
    Cardinality({ j \in 1..Len(rs) : /\ rs[j].run_number = run_no
                                     /\ rs[j].experiment = experiment })
\* (variant: "no run" reported as version 0)
get_last_run_version_from_zero(rs, run_no, experiment) ==
    LET vs == { rs[k].run_version :
                  k \in { j \in 1..Len(rs) : /\ rs[j].run_number = run_no
                                             /\ rs[j].experiment = experiment } }
    IN  IF vs = {} THEN 0
        ELSE CHOOSE v \in vs : \A w \in vs : w <= v
\* (variant: the versions are ordered the other way, the first is the lowest)
get_first_run_version(rs, run_no, experiment) ==
    LET vs == { rs[k].run_version :
                  k \in { j \in 1..Len(rs) : /\ rs[j].run_number = run_no
                                             /\ rs[j].experiment = experiment } }
    IN  IF vs = {} THEN NoRunSentinel
        ELSE CHOOSE v \in vs : \A w \in vs : v <= w
\* the latest run version for the run number and experiment, -1 if none
get_last_run_version(rs, run_no, experiment) ==
    LET vs == { rs[k].run_version :
                  k \in { j \in 1..Len(rs) : /\ rs[j].run_number = run_no
                                             /\ rs[j].experiment = experiment } }
    IN  IF vs = {} THEN NoRunSentinel
        ELSE CHOOSE v \in vs : \A w \in vs : w <= v

create_reduction_run_record(experiment, instrument, message, run_version, script_text, status) ==
    [ run_number |-> message.run_number, run_version |-> run_version,
      experiment |-> experiment, instrument |-> instrument,
      status |-> status, started |-> None, finished |-> None,
      message |-> "", reduction_log |-> "", admin_log |-> "",
      cancel |-> FALSE, script |-> script_text,
      started_by |-> message.started_by ]

\* (variant: the run version of the message is not looked at)
find_run_of_any_version(c, message) ==
    IF ~get_experiment(c, message.rb_number) THEN 0
    ELSE LET ids == { k \in 1..Len(c.runs) :
                        /\ c.runs[k].experiment = message.rb_number
                        /\ c.runs[k].run_number = message.run_number }
         IN  IF ids = {} THEN 0
             ELSE CHOOSE k \in ids : \A j \in ids : k <= j
\* the id of the first run matching the message, 0 if there is none
find_run(c, message) ==
    IF ~get_experiment(c, message.rb_number) THEN 0
    ELSE LET ids == { k \in 1..Len(c.runs) :
                        /\ c.runs[k].experiment = message.rb_number
                        /\ c.runs[k].run_number = message.run_number
                        /\ c.runs[k].run_version = message.run_version }
         IN  IF ids = {} THEN 0
             ELSE CHOOSE k \in ids : \A j \in ids : k <= j

\* one published message
Published(destination, delay, run_number, run_version, rb_number, text, script, arguments) ==
    [ destination |-> destination, delay |-> delay,
      run_number |-> run_number, run_version |-> run_version,
      rb_number |-> rb_number, message |-> text, reduction_script |-> script,
      reduction_arguments |-> arguments ]

\* (variant: the message goes out with run_version 0, as it came in)
send_message_as_received(c, destination) ==
    LET m == c.message
    IN  [c EXCEPT !.attempts = @ + 1,
                  !.sent = Append(@, Published(destination, None,
                      m.run_number, 0, m.rb_number, m.message,
                      m.reduction_script, m.reduction_arguments))]
\* self._client.send_message(destination, message)
send_message(c, destination) ==
    LET m == c.message
    IN  [c EXCEPT !.attempts = @ + 1,
                  !.sent = Append(@, Published(destination, None,
                      m.run_number, m.run_version, m.rb_number, m.message,
                      m.reduction_script, m.reduction_arguments))]

\* (variant: the message goes out with the text it came in with)
construct_and_send_skipped_as_received(c, rb_number, reason) ==
    send_message(logger_warning(c), "/queue/ReductionSkipped")
\* the message gets the text of the skip and goes to reduction-skipped
construct_and_send_skipped(c, rb_number, reason) ==
    LET c1 == logger_warning(c)
        c2 == [c1 EXCEPT !.message.message =
                   "Reduction Skipped: " \o reason
                       \o ". Assuming run number to be a calibration run."]
    IN  send_message(c2, "/queue/ReductionSkipped")

\* ----------------------------------------------------------------- retry
\* (variant: the new version follows the latest version of the run number)
create_retry_run_after_latest(c, user_id, id) ==
    LET old == c.runs[id]
        vs == { c.runs[k].run_version :
                  k \in { j \in 1..Len(c.runs) :
                            /\ c.runs[j].run_number = old.run_number
                            /\ c.runs[j].experiment = old.experiment } }
        latest == CHOOSE v \in vs : \A w \in vs : w <= v
        new_job == [ old EXCEPT !.run_version = latest + 1,
                                !.status = "Queued",
                                !.started = None, !.finished = None,
                                !.message = "", !.reduction_log = "",
                                !.admin_log = "", !.cancel = FALSE,
                                !.started_by = user_id ]
    IN  save_new_run(c, new_job)
\* (variant: the record of the failed run is turned into the new version)
create_retry_run_in_place(c, user_id, id) ==
    [c EXCEPT !.runs[id].run_version = @ + 1,
              !.runs[id].status = "Queued",
              !.runs[id].started = None, !.runs[id].finished = None,
              !.runs[id].started_by = user_id,
              !.run = id]
\* ReductionRunUtils.create_retry_run: a new version of the run, Queued,
\* started by user_id
create_retry_run(c, user_id, id) ==
    LET old == c.runs[id]
        new_job == [ old EXCEPT !.run_version = old.run_version + 1,
                                !.status = "Queued",
                                !.started = None, !.finished = None,
                                !.message = "", !.reduction_log = "",
                                !.admin_log = "", !.cancel = FALSE,
                                !.started_by = user_id ]
    IN  save_new_run(c, new_job)

\* MessagingUtils.send_pending(new_job, delay)
send_pending(c, id, delay) ==
    LET job == c.runs[id]
    IN  [c EXCEPT !.attempts = @ + 1,
                  !.sent = Append(@, Published("/queue/ReductionPending",
                      Some(delay), job.run_number, job.run_version,
                      job.experiment, job.message, Some(job.script),
                      Some("arguments")))]

\* (variant: the cancel flag is not consulted)
RetryNeverBlocked(run) == FALSE
\* "if reduction_run.cancel": the retry is abandoned
RetryBlocked(run) == run.cancel
\* (variant: the delay is passed on in seconds)
to_seconds(retry_in) == retry_in
\* "Seconds to Milliseconds"
to_milliseconds(retry_in) == retry_in * MillisPerSecond
\* (variant: the failure of the publish is logged and goes no further)
log_exp(c) == logger_error(c)
\* "except Exception as exp: logger.error(...); raise exp"
log_and_raise_exp(c) == [logger_error(c) EXCEPT !.raised = TRUE]
\* (variant: the store is put back as it was before the retry was created)
rolled_back(c, c1) == c
\* the except clause of retry_run only logs and raises: the store stays as
\* create_retry_run left it (c1), the new version included
not_rolled_back(c, c1) == c1
\* publish_ok: the broker takes the delayed message; otherwise the one call
\* of send_pending raises
retry_run(c, user_id, id, retry_in, publish_ok) ==
    IF RetryBlocked(c.runs[id]) THEN c
    ELSE LET c1 == create_retry_run(c, user_id, id)
         IN  IF c1.raised THEN [c1 EXCEPT !.run = id]
             ELSE IF publish_ok
                  THEN [send_pending(c1, c1.run, to_milliseconds(retry_in))
                            EXCEPT !.run = id]
                  ELSE [log_and_raise_exp(
                            [not_rolled_back(c, c1) EXCEPT !.attempts = @ + 1])
                            EXCEPT !.run = id]

\* --------------------------------------------------------------- handlers
\* (variant: every version of the run number is marked)
FinishEveryVersion(c, id, status) ==
    [c EXCEPT !.run = id,
              !.runs = [k \in 1..Len(c.runs) |->
                  IF /\ c.runs[k].experiment = c.runs[id].experiment
                     /\ c.runs[k].run_number = c.runs[id].run_number
                  THEN [c.runs[k] EXCEPT
                           !.status = status,
                           !.finished = Some(utcnow),
                           !.message = c.message.message,
                           !.reduction_log = c.message.reduction_log,
                           !.admin_log = c.message.admin_log]
                  ELSE c.runs[k]]]
\* (variant: the logs of the message are added to those of the run)
FinishAppending(c, id, status) ==
    [c EXCEPT !.run = id,
              !.runs[id].status = status,
              !.runs[id].finished = Some(utcnow),
              !.runs[id].message = c.message.message,
              !.runs[id].reduction_log = @ \o c.message.reduction_log,
              !.runs[id].admin_log = @ \o c.message.admin_log]
\* (variant: a run that has finished is left as it is)
FinishUnlessFinished(c, id, status) ==
    IF ~IsNone(c.runs[id].finished) THEN [c EXCEPT !.run = id]
    ELSE [c EXCEPT !.run = id,
                   !.runs[id].status = status,
                   !.runs[id].finished = Some(utcnow),
                   !.runs[id].message = c.message.message,
                   !.runs[id].reduction_log = c.message.reduction_log,
                   !.runs[id].admin_log = c.message.admin_log]
\* copy message, reduction_log and admin_log of the message onto run id,
\* with the new status and finished = now
Finish(c, id, status) ==
    [c EXCEPT !.run = id,
              !.runs[id].status = status,
              !.runs[id].finished = Some(utcnow),
              !.runs[id].message = c.message.message,
              !.runs[id].reduction_log = c.message.reduction_log,
              !.runs[id].admin_log = c.message.admin_log]

\* (variant: one retry more)
beyond_retry_limit(max_version) == max_version <= RetryLimit + 1
\* (variant: one retry fewer)
below_retry_limit(max_version) == max_version < RetryLimit
\* "if max_version <= 4": not yet tried more than 5 times
within_retry_limit(max_version) == max_version <= RetryLimit
\* (variant: the run is not marked when a retry is attempted)
reduction_error_unless_retried(c, publish_ok) ==
    LET message == c.message
        id == find_run(c, message)
    IN  IF id = 0 THEN logger_error(c)
        ELSE IF IsNone(message.retry_in) THEN Finish(c, id, "Error")
        ELSE IF within_retry_limit(
                    get_last_run_version(c.runs, message.run_number,
                                         message.rb_number))
             THEN retry_run(c, message.started_by, id, message.retry_in[1],
                            publish_ok)
             ELSE [Finish(c, id, "Error") EXCEPT !.message.retry_in = None]
reduction_error(c, publish_ok) ==
    LET message == c.message
        id == find_run(c, message)
    IN  IF id = 0 THEN logger_error(c)
        ELSE LET c1 == Finish(c, id, "Error")
             IN  IF IsNone(message.retry_in) THEN c1
                 ELSE LET max_version ==
                              get_last_run_version(c1.runs, message.run_number,
                                                   message.rb_number)
                      IN  IF within_retry_limit(max_version)
                          THEN retry_run(c1, message.started_by, id,
                                         message.retry_in[1], publish_ok)
                          ELSE [c1 EXCEPT !.message.retry_in = None]

\* (variant: the pause flag is ignored when the run is created)
initial_status_queued(instrument) == "Queued"
\* the status a new run is created with
initial_status(instrument) ==
    IF instrument.is_paused THEN "Skipped" ELSE "Queued"
data_ready(c, script_text, publish_ok) ==
    LET c1 == get_db_inst(c, c.message.instrument)
        instrument == c1.instruments[c.message.instrument]
        status == initial_status(instrument)
        experiment == c.message.rb_number
        c2 == get_or_create_experiment(c1, experiment)
        run_version ==
            get_last_run_version(c2.runs, c.message.run_number, experiment) + 1
        c3 == [c2 EXCEPT !.message.run_version = run_version]
    IN  IF IsNone(script_text) THEN reduction_error(c3, publish_ok)
        ELSE
        LET reduction_run ==
                create_reduction_run_record(experiment, c.message.instrument,
                    c3.message, run_version, script_text[1], status)
            c4 == save_new_run(c3, reduction_run)
        IN  IF c4.raised THEN c4
            ELSE
            LET c5 == [c4 EXCEPT
                         !.data_locations =
                             Append(@, [file_path |-> c4.message.data,
                                        reduction_run_id |-> c4.run]),
                         !.message.reduction_script = Some(script_text[1]),
                         !.message.reduction_arguments = Some("arguments")]
                validity == is_valid_rb(c5.message.rb_number)
                error_message == validity.value
            IN  IF validity.exception # "none" THEN [c5 EXCEPT !.raised = TRUE]
                ELSE IF ~IsNone(error_message)
                THEN construct_and_send_skipped(c5, c5.message.rb_number,
                                                error_message[1])
                ELSE IF instrument.is_paused THEN c5
                ELSE send_message(c5, "/queue/ReductionPending")

\* (variant: any run that has not completed may start)
RestartableUnlessCompleted(status) ==
    status # "Processing" /\ status # "Completed"
\* (variant: only a failed run may start)
RestartableFromError(status) == status = "Error"
\* (variant: only a queued run may start)
RestartableFromQueued(status) == status = "Queued"
\* (variant: a finished run may start again)
RestartableFromAny(status) == status # "Processing"
\* the statuses reduction_started accepts
Restartable(status) == status = "Error" \/ status = "Queued"
reduction_started(c) ==
    LET id == find_run(c, c.message)
    IN  IF id = 0 THEN logger_error(c)
        ELSE IF Restartable(c.runs[id].status)
        THEN [c EXCEPT !.run = id,
                       !.runs[id].status = "Processing",
                       !.runs[id].started = Some(utcnow)]
        ELSE [logger_error(c) EXCEPT !.run = id]

\* the ReductionLocation records saved for the paths of reduction_data
RECURSIVE SaveLocations(_, _, _)
SaveLocations(locations, reduction_data, id) ==
    IF reduction_data = <<>> THEN locations
    ELSE SaveLocations(Append(locations, [file_path |-> Head(reduction_data),
                                          reduction_run |-> id]),
                       Tail(reduction_data), id)

\* (variant: a run that never started may complete)
CompletableUnstarted(status) == status = "Processing" \/ status = "Queued"
\* (variant: any run that has not completed may complete)
CompletableUnfinished(status) == status # "Completed"
\* the status reduction_complete accepts
Completable(status) == status = "Processing"
\* (variant: the failure is logged and raised again)
reraised(c) == [logger_error(c) EXCEPT !.raised = TRUE]
\* "except BaseException as exp": the failure is logged and goes no further
caught(c) == logger_error(c)
\* (variant: the run is saved before its locations)
run_as_assigned(c, c1) == c1
\* "db_access.save_record(reduction_run)" comes after the loop over the
\* locations: when a location is refused the store holds the run as it was
\* (c), not as it was assigned (c1)
run_as_stored(c, c1) == c
\* store_ok: the database answers; otherwise the first access to it inside
\* the try block (find_run) raises.  The attributes of the run are assigned
\* in memory; the locations are saved one by one and the run after them, so
\* a refused save of a location leaves the run as it was stored.
reduction_complete(c, store_ok) ==
    LET id == find_run(c, c.message)
    IN  IF ~store_ok THEN caught(c)
        ELSE IF id = 0 THEN logger_error(c)
        ELSE IF Completable(c.runs[id].status)
        THEN LET c1 == Finish(c, id, "Completed")
             IN  IF IsNone(c.message.reduction_data) THEN c1
                 ELSE IF c.failing_save \in 1..Len(c.message.reduction_data[1])
                 THEN [caught(run_as_stored(c, c1)) EXCEPT
                          !.run = id,
                          !.failed_save = c.failing_save,
                          !.reduction_locations =
                              SaveLocations(@,
                                  SubSeq(c.message.reduction_data[1], 1,
                                         c.failing_save - 1), id)]
                 ELSE [c1 EXCEPT !.reduction_locations =
                           SaveLocations(@, c.message.reduction_data[1], id)]
        ELSE [logger_error(c) EXCEPT !.run = id]

reduction_skipped(c) ==
    LET id == find_run(c, c.message)
    IN  IF id = 0 THEN logger_error(c)
        ELSE Finish(c, id, "Skipped")

\* --------------------------------------------------------------- listener
DataReadyQueue == "/queue/DataReady"
StartedQueue == "/queue/ReductionStarted"
CompleteQueue == "/queue/ReductionComplete"
ErrorQueue == "/queue/ReductionError"
SkippedDestination == "/queue/ReductionSkipped"
Destinations ==
    {DataReadyQueue, StartedQueue, CompleteQueue, ErrorQueue, SkippedDestination}
UnknownDestinations == {"unknown"}

\* (variant: an unknown destination is treated as new data)
handler_or_data_ready(destination) ==
    CASE destination = DataReadyQueue -> "data_ready"
      [] destination = StartedQueue -> "reduction_started"
      [] destination = CompleteQueue -> "reduction_complete"
      [] destination = ErrorQueue -> "reduction_error"
      [] destination = SkippedDestination -> "reduction_skipped"
      [] OTHER -> "data_ready"
\* the handler method a destination is dispatched to, "none" if there is none
handler_of(destination) ==
    CASE destination = DataReadyQueue -> "data_ready"
      [] destination = StartedQueue -> "reduction_started"
      [] destination = CompleteQueue -> "reduction_complete"
      [] destination = ErrorQueue -> "reduction_error"
      [] destination = SkippedDestination -> "reduction_skipped"
      [] OTHER -> "none"

\* the call of a handler method on the message of context c
invoke(handler, c, script_text, publish_ok, store_ok) ==
    CASE handler = "data_ready" -> data_ready(c, script_text, publish_ok)
      [] handler = "reduction_started" -> reduction_started(c)
      [] handler = "reduction_complete" -> reduction_complete(c, store_ok)
      [] handler = "reduction_error" -> reduction_error(c, publish_ok)
      [] OTHER -> reduction_skipped(c)

\* (variant: an exception of a handler leaves on_message)
escapes_when_raised(raised) == raised
\* whether an exception raised under on_message leaves on_message
escapes(raised) == FALSE

\* whether the broker delivers the message again after on_message
redelivered(raised) == FALSE

\* StompClient.on_message: the message is populated from the payload
\* (populate_ok: the payload decodes), then handed to the handler of its
\* destination.  The outcome is the context the handler left, the handlers
\* that were invoked, the most severe level the listener itself logged,
\* whether an exception left on_message and whether the message comes again.
on_message(c, destination, populate_ok, script_text, publish_ok, store_ok) ==
    LET handler == handler_of(destination)
        dispatched == populate_ok /\ handler # "none"
        c1 == IF ~populate_ok THEN [c EXCEPT !.raised = TRUE]
              ELSE IF dispatched
                   THEN invoke(handler, c, script_text, publish_ok, store_ok)
                   ELSE c
    IN  [ context |-> c1,
          handlers |-> IF dispatched THEN <<handler>> ELSE <<>>,
          log |-> IF c1.raised THEN "error"
                  ELSE IF populate_ok /\ ~dispatched THEN "warning"
                  ELSE "info",
          escaped |-> escapes(c1.raised),
          redelivered |-> redelivered(c1.raised) ]

\* ---------------------------------------------------------------- actions
\* The state after on_message was given message m on a destination and ended
\* with outcome o.  The result keeps the delivered message when the call
\* found or created a run or was data_ready, the run_version and retry_in the
\* message object holds when the handler returns, whether a stored run had
\* the (rb_number, run_number, run_version) of the message as delivered, and
\* whether the same message was given to the same handler just before.
Deliver(destination, m, script_text, store_ok, o) ==
    LET c == o.context
        op == IF o.handlers = <<>> THEN "none" ELSE o.handlers[1]
    IN  /\ budget > 0
        /\ ~result.escaped
        /\ budget' = IF o.redelivered THEN budget ELSE budget - 1
        /\ instruments' = c.instruments
        /\ experiments' = c.experiments
        /\ runs' = c.runs
        /\ data_locations' = c.data_locations
        /\ reduction_locations' = c.reduction_locations
        /\ scheduled' = scheduled \cup
               { c.sent[k] : k \in { j \in 1..Len(c.sent) :
                                        ~IsNone(c.sent[j].delay) } }
        /\ result' = [ op |-> op, run |-> c.run,
                       message |-> IF c.run # 0 \/ op = "data_ready"
                                   THEN Some(m) ELSE None,
                       script_text |-> script_text,
                       sent |-> c.sent, attempts |-> c.attempts,
                       failed_save |-> c.failed_save,
                       log |-> c.log, raised |-> c.raised,
                       run_version |-> IF op = "data_ready"
                                       THEN Some(c.message.run_version) ELSE None,
                       retry_in |-> IF op \in {"data_ready", "reduction_error"}
                                    THEN c.message.retry_in ELSE None,
                       destination |-> Some(destination),
                       handlers |-> o.handlers,
                       listener_log |-> o.log,
                       escaped |-> o.escaped,
                       redelivered |-> o.redelivered,
                       store_ok |-> store_ok,
                       matched |-> op # "none" /\
                                   \E k \in 1..Len(runs) :
                                       /\ runs[k].experiment = m.rb_number
                                       /\ runs[k].run_number = m.run_number
                                       /\ runs[k].run_version = m.run_version,
                       again |-> /\ c.run # 0
                                 /\ result.op = op
                                 /\ result.message = Some(m) ]

\* rb_number values of new data: valid, zero, and not a number
DataReadyRBs == RBs \cup {StrVal(<<"a", "b", "c">>)}
DataReadyMessages ==
    { Message(n, 0, rb, i, NoText, None, retry_in, 0) :
        n \in RunNumbers, rb \in DataReadyRBs, i \in Instruments,
        retry_in \in RetryIns }
StartedMessages ==
    { Message(n, v, rb, "WISH", NoText, None, None, 0) :
        n \in RunNumbers, v \in Versions, rb \in RBs }
CompleteMessages ==
    { Message(n, v, rb, "WISH", text, data, None, 0) :
        n \in RunNumbers, v \in Versions, rb \in RBs, text \in Texts,
        data \in ReductionData }
SkippedMessages ==
    { Message(n, v, rb, "WISH", text, None, retry_in, 0) :
        n \in RunNumbers, v \in Versions, rb \in RBs, text \in Texts,
        retry_in \in RetryIns }
ErrorMessages ==
    { Message(n, v, rb, "WISH", text, None, retry_in, by) :
        n \in RunNumbers, v \in Versions, rb \in RBs, text \in Texts,
        retry_in \in RetryIns, by \in Actors }
\* a message of no particular kind
AnyMessage == Message(1, 0, IntVal(5), "WISH", NoText, None, None, 0)
\* destinations on which an undecodable payload arrives
BadPayloadDestinations == {ErrorQueue, "unknown"}

DataReady(m, script_text, publish_ok) ==
    Deliver(DataReadyQueue, m, script_text, TRUE,
            on_message(Context(m), DataReadyQueue, TRUE, script_text,
                       publish_ok, TRUE))
ReductionStarted(m) ==
    Deliver(StartedQueue, m, None, TRUE,
            on_message(Context(m), StartedQueue, TRUE, None, TRUE, TRUE))
ReductionComplete(m, store_ok) ==
    Deliver(CompleteQueue, m, None, store_ok,
            on_message(Context(m), CompleteQueue, TRUE, None, TRUE, store_ok))
ReductionSkipped(m) ==
    Deliver(SkippedDestination, m, None, TRUE,
            on_message(Context(m), SkippedDestination, TRUE, None, TRUE, TRUE))
ReductionError(m, publish_ok) ==
    Deliver(ErrorQueue, m, None, TRUE,
            on_message(Context(m), ErrorQueue, TRUE, None, publish_ok, TRUE))
\* reduction_complete while the store refuses the k-th save of a location
ReductionCompleteFailing(m, k) ==
    Deliver(CompleteQueue, m, None, TRUE,
            on_message([Context(m) EXCEPT !.failing_save = k], CompleteQueue,
                       TRUE, None, TRUE, TRUE))
\* a message on a destination that has no handler
Unrecognised(destination, m) ==
    Deliver(destination, m, None, TRUE,
            on_message(Context(m), destination, TRUE, None, TRUE, TRUE))
\* a payload that Message.populate cannot decode
Undecodable(destination) ==
    Deliver(destination, AnyMessage, None, TRUE,
            on_message(Context(AnyMessage), destination, FALSE, None, TRUE,
                       TRUE))

\* (variant: cancelling a run also withdraws the delayed messages of its
\* retry from the broker)
CancelRunWithdrawing(id) ==
    /\ budget > 0
    /\ ~result.escaped
    /\ id \in 1..Len(runs)
    /\ ~runs[id].cancel
    /\ runs' = [runs EXCEPT ![id].cancel = TRUE]
    /\ scheduled' = { s \in scheduled :
                        ~ /\ s.rb_number = runs[id].experiment
                          /\ s.run_number = runs[id].run_number
                          /\ s.run_version = runs[id].run_version + 1 }
    /\ budget' = budget - 1
    /\ result' = [ op |-> "cancel", run |-> id, message |-> None,
                   script_text |-> None, sent |-> <<>>, attempts |-> 0,
                   failed_save |-> 0,
                   log |-> "info", raised |-> FALSE, run_version |-> None,
                   retry_in |-> None,
                   destination |-> None, handlers |-> <<>>,
                   listener_log |-> "info", escaped |-> FALSE,
                   redelivered |-> FALSE, store_ok |-> TRUE,
                   matched |-> FALSE, again |-> FALSE ]
    /\ UNCHANGED << instruments, experiments, data_locations,
                    reduction_locations >>
\* An operator sets the cancel flag of a run (the web application).
CancelRun(id) ==
    /\ budget > 0
    /\ ~result.escaped
    /\ id \in 1..Len(runs)
    /\ ~runs[id].cancel
    /\ runs' = [runs EXCEPT ![id].cancel = TRUE]
    /\ budget' = budget - 1
    /\ result' = [ op |-> "cancel", run |-> id, message |-> None,
                   script_text |-> None, sent |-> <<>>, attempts |-> 0,
                   failed_save |-> 0,
                   log |-> "info", raised |-> FALSE, run_version |-> None,
                   retry_in |-> None,
                   destination |-> None, handlers |-> <<>>,
                   listener_log |-> "info", escaped |-> FALSE,
                   redelivered |-> FALSE, store_ok |-> TRUE,
                   matched |-> FALSE, again |-> FALSE ]
    /\ UNCHANGED << instruments, experiments, data_locations,
                    reduction_locations, scheduled >>

\* ------------------------------------------------------------------- init
NoResult ==
    [ op |-> "none", run |-> 0, message |-> None, script_text |-> None,
      sent |-> <<>>, attempts |-> 0, failed_save |-> 0, log |-> "info",
      raised |-> FALSE, run_version |-> None, retry_in |-> None,
      destination |-> None,
      handlers |-> <<>>,
      listener_log |-> "info", escaped |-> FALSE, redelivered |-> FALSE,
      store_ok |-> TRUE, matched |-> FALSE, again |-> FALSE ]

\* the record of an instrument that has not been seen yet
NewInstrument == [exists |-> FALSE, is_active |-> FALSE, is_paused |-> FALSE]

\* an instrument record as the web application may have left it
InstrumentStates ==
    { NewInstrument,
      [exists |-> TRUE, is_active |-> FALSE, is_paused |-> FALSE],
      [exists |-> TRUE, is_active |-> TRUE, is_paused |-> TRUE] }

EmptyStore(inst) ==
    [ instruments |-> [i \in Instruments |-> inst], experiments |-> {},
      runs |-> <<>>, data_locations |-> <<>>, reduction_locations |-> <<>>,
      message |-> Message(1, 0, IntVal(5), "WISH", NoText, None, None, 0),
      sent |-> <<>>, attempts |-> 0, log |-> "info", raised |-> FALSE,
      run |-> 0, failing_save |-> 0, failed_save |-> 0 ]

\* the store after k data_ready messages for run 1 of experiment 5
RECURSIVE Resubmitted(_, _)
Resubmitted(c, k) ==
    IF k = 0 THEN c
    ELSE Resubmitted(data_ready(c, Some("script"), TRUE), k - 1)

\* the store after run 1 of experiment 5 was queued, started and completed
Reduced(c) ==
    LET queued == data_ready(c, Some("script"), TRUE)
        started == reduction_started(queued)
    IN  reduction_complete(
            [started EXCEPT !.message.message = "done",
                            !.message.reduction_log = "rlog",
                            !.message.admin_log = "alog"], TRUE)

\* the store after run 1 of experiment 5 was queued and failed
Failed(c) ==
    LET queued == data_ready(c, Some("script"), TRUE)
    IN  reduction_error(
            [queued EXCEPT !.message.message = "failed",
                           !.message.reduction_log = "rlog",
                           !.message.admin_log = "alog"], TRUE)

\* how many versions of the run a chain holds at the start
PriorVersions == {RetryLimit + 1, RetryLimit + 2}

\* The stores a behaviour starts from, each with the number of deliveries
\* that follow: the empty store, one holding a completed run, one holding a
\* failed run, and one holding a chain of versions of one run.
InitialStores ==
    { [store |-> EmptyStore(inst), deliveries |-> MaxDeliveries] :
        inst \in InstrumentStates }
    \cup { [store |-> Reduced(EmptyStore(NewInstrument)),
            deliveries |-> MaxDeliveries],
           [store |-> Failed(EmptyStore(NewInstrument)),
            deliveries |-> MaxDeliveries] }
    \cup { [store |-> Resubmitted(EmptyStore(NewInstrument), k),
            deliveries |-> MaxRetryDeliveries] : k \in PriorVersions }

Init ==
    \E i \in InitialStores :
        /\ instruments = i.store.instruments
        /\ experiments = i.store.experiments
        /\ runs = i.store.runs
        /\ data_locations = i.store.data_locations
        /\ reduction_locations = i.store.reduction_locations
        /\ scheduled = {}
        /\ result = NoResult
        /\ budget = i.deliveries

Next ==
    \/ \E m \in DataReadyMessages, script_text \in ScriptTexts :
          DataReady(m, script_text, TRUE)
    \/ \E m \in StartedMessages : ReductionStarted(m)
    \/ \E m \in CompleteMessages : ReductionComplete(m, TRUE)
    \/ ReductionComplete(AnyMessage, FALSE)
    \/ \E m \in SkippedMessages : ReductionSkipped(m)
    \/ \E m \in ErrorMessages : ReductionError(m, TRUE)
    \/ \E m \in { e \in ErrorMessages : ~IsNone(e.retry_in) } :
          ReductionError(m, FALSE)
    \/ \E destination \in UnknownDestinations :
          Unrecognised(destination, AnyMessage)
    \/ \E destination \in BadPayloadDestinations : Undecodable(destination)
    \/ \E id \in 1..Len(runs) : CancelRun(id)

Spec == Init /\ [][Next]_vars

\* ------------------------------------------------- is_valid_rb on its own
RBChars == {"7", "0", "-", " ", "a"}
RBTexts == UNION { [1..n -> RBChars] : n \in 0..MaxRBLen }
\* the values is_valid_rb is applied to
RBInputs ==
    { IntVal(n) : n \in (0 - MaxRB)..MaxRB }
    \cup { FloatVal(n) : n \in (0 - MaxRB)..MaxRB }
    \cup { StrVal(t) : t \in RBTexts }
    \cup { NoneVal, ListVal, NanVal, InfVal, MinusInfVal }

\* a value is about to be validated
RBInit ==
    /\ \E v \in RBInputs :
           result = [ op |-> "rb_number", rb_number |-> v,
                      exception |-> "none", value |-> None ]
    /\ instruments = [i \in Instruments |-> NewInstrument]
    /\ experiments = {}
    /\ runs = <<>>
    /\ data_locations = <<>>
    /\ reduction_locations = <<>>
    /\ scheduled = {}
    /\ budget = 1

\* the call is_valid_rb(rb_number)
IsValidRB ==
    /\ budget > 0
    /\ result.op = "rb_number"
    /\ result' = [ op |-> "is_valid_rb", rb_number |-> result.rb_number,
                   exception |-> is_valid_rb(result.rb_number).exception,
                   value |-> is_valid_rb(result.rb_number).value ]
    /\ budget' = budget - 1
    /\ UNCHANGED << instruments, experiments, runs, data_locations,
                    reduction_locations, scheduled >>

RBNext == IsValidRB

RBSpec == RBInit /\ [][RBNext]_vars

\* ------------------------------------- a run on its way through the worker
\* The reduction worker takes the message data_ready published to
\* reduction-pending and reports the start and then the completion of that
\* run version; nothing else is delivered for it in between.  A message
\* data_ready published to reduction-skipped comes back to the listener.
LiveInit ==
    \E i \in InitialStores :
        /\ instruments = i.store.instruments
        /\ experiments = i.store.experiments
        /\ runs = i.store.runs
        /\ data_locations = i.store.data_locations
        /\ reduction_locations = i.store.reduction_locations
        /\ scheduled = {}
        /\ result = NoResult
        /\ budget = MaxLiveDeliveries

\* new data arrives at the start and after a run has been finished
NewData ==
    /\ result.op \in {"none", "reduction_complete", "reduction_skipped"}
    /\ \E m \in DataReadyMessages, script_text \in ScriptTexts :
           DataReady(m, script_text, TRUE)

\* the worker reports the start of the run it took from reduction-pending
WorkerStarts ==
    /\ result.op = "data_ready"
    /\ result.sent # <<>>
    /\ result.sent[1].destination = "/queue/ReductionPending"
    /\ ReductionStarted(Message(result.sent[1].run_number,
                                result.sent[1].run_version,
                                result.sent[1].rb_number, "WISH", NoText,
                                None, None, 0))

\* the worker reports the completion of the run it has started
WorkerCompletes ==
    /\ result.op = "reduction_started"
    /\ ~IsNone(result.message)
    /\ \E text \in Texts, data \in ReductionData :
           ReductionComplete(Message(result.message[1].run_number,
                                     result.message[1].run_version,
                                     result.message[1].rb_number, "WISH",
                                     text, data, None, 0), TRUE)

\* the message data_ready published to reduction-skipped comes back to
\* the listener
SkipConsumed ==
    /\ result.op = "data_ready"
    /\ result.sent # <<>>
    /\ result.sent[1].destination = "/queue/ReductionSkipped"
    /\ ReductionSkipped(Message(result.sent[1].run_number,
                                result.sent[1].run_version,
                                result.sent[1].rb_number, "WISH",
                                [message |-> result.sent[1].message,
                                 reduction_log |-> NoneStr,
                                 admin_log |-> NoneStr],
                                None, result.message[1].retry_in, 0))

LiveNext == NewData \/ WorkerStarts \/ WorkerCompletes \/ SkipConsumed

\* every message the worker has to send is delivered in the end
LiveSpec ==
    /\ LiveInit
    /\ [][LiveNext]_vars
    /\ WF_vars(WorkerStarts)
    /\ WF_vars(WorkerCompletes)
    /\ WF_vars(SkipConsumed)

\* ------------------------------------------- the store fails during a save
\* the most output files a reduction_complete message names
MaxPaths == 2

\* Runs are started and completed while the store may refuse the save of a
\* ReductionLocation.
FailNext ==
    \/ \E m \in StartedMessages : ReductionStarted(m)
    \/ \E m \in CompleteMessages : ReductionComplete(m, TRUE)
    \/ \E m \in CompleteMessages, k \in 1..MaxPaths :
          ReductionCompleteFailing(m, k)

FailSpec == Init /\ [][FailNext]_vars

\* ------------------------------------------------------ HealthCheckThread
\* The thread is described by result: where run() stands (pc), the exit
\* flag, the value health_check returned last, how many health checks were
\* made, how many of them began after stop() was called, how many times
\* restart_service was called, and which instruments of INSTRUMENTS have a
\* reduction run in the database.
HealthInstruments == {"WISH", "GEM"}

Up(n) == IF n < MaxChecks THEN n + 1 ELSE n

\* (variant: an instrument without a run is reported as a problem)
health_check_reporting(connect_ok, last_runs) ==
    IF ~connect_ok THEN {Returned(Some(TRUE)), Raised("Exception")}
    ELSE IF \A i \in HealthInstruments : last_runs[i]
         THEN {Returned(Some(TRUE))}
         ELSE {Returned(Some(FALSE))}
\* The outcomes of one call of health_check.  A ConnectionException of
\* connect is caught and logged; what get_connection and the query do
\* without a connection is not decided here, so the call returns or
\* raises.  With a connection the query of each instrument gives its last
\* run; for an instrument without one first() is None and ".run_number"
\* raises AttributeError.  When the call returns it returns True.
health_check(connect_ok, last_runs) ==
    IF ~connect_ok THEN {Returned(Some(TRUE)), Raised("Exception")}
    ELSE IF \A i \in HealthInstruments : last_runs[i]
         THEN {Returned(Some(TRUE))}
         ELSE {Raised("AttributeError")}

HealthInit ==
    /\ \E last_runs \in [HealthInstruments -> BOOLEAN] :
           result = [ op |-> "health_check", pc |-> "while", exit |-> FALSE,
                      service_okay |-> TRUE, checks |-> 0, after_stop |-> 0,
                      restarts |-> 0, exception |-> "none",
                      last_runs |-> last_runs ]
    /\ instruments = [i \in Instruments |-> NewInstrument]
    /\ experiments = {}
    /\ runs = <<>>
    /\ data_locations = <<>>
    /\ reduction_locations = <<>>
    /\ scheduled = {}
    /\ budget = 0

HealthFrame ==
    UNCHANGED << instruments, experiments, runs, data_locations,
                 reduction_locations, scheduled, budget >>

\* "while self.exit is False"
WhileExitIsFalse ==
    /\ result.pc = "while"
    /\ result' = [result EXCEPT !.pc = IF result.exit = FALSE
                                       THEN "health_check" ELSE "stopped"]
    /\ HealthFrame

\* "service_okay = self.health_check()"
HealthCheck ==
    /\ result.pc = "health_check"
    /\ \E connect_ok \in BOOLEAN :
       \E o \in health_check(connect_ok, result.last_runs) :
           result' = [result EXCEPT
                         !.checks = Up(@),
                         !.after_stop = IF result.exit THEN Up(@) ELSE @,
                         !.exception = o.exception,
                         !.service_okay = IF o.exception = "none"
                                          THEN o.value[1] ELSE @,
                         !.pc = IF o.exception = "none"
                                THEN "if" ELSE "raised"]
    /\ HealthFrame

\* "if service_okay: ... else: ... self.restart_service()"
IfServiceOkay ==
    /\ result.pc = "if"
    /\ result' = [result EXCEPT
                     !.restarts = IF result.service_okay THEN @ ELSE Up(@),
                     !.pc = "sleep"]
    /\ HealthFrame

\* "time.sleep(self.time_interval)"
Sleep ==
    /\ result.pc = "sleep"
    /\ result' = [result EXCEPT !.pc = "while"]
    /\ HealthFrame

\* another thread calls stop()
Stop ==
    /\ ~result.exit
    /\ result' = [result EXCEPT !.exit = TRUE]
    /\ HealthFrame

\* the first run of an instrument reaches the database
FirstRun ==
    /\ \E i \in HealthInstruments :
           /\ ~result.last_runs[i]
           /\ result' = [result EXCEPT !.last_runs[i] = TRUE]
    /\ HealthFrame

HealthNext ==
    \/ WhileExitIsFalse
    \/ HealthCheck
    \/ IfServiceOkay
    \/ Sleep
    \/ Stop
    \/ FirstRun

\* the thread is scheduled again and again, and its calls come back
HealthSpec ==
    /\ HealthInit
    /\ [][HealthNext]_vars
    /\ WF_vars(WhileExitIsFalse)
    /\ WF_vars(HealthCheck)
    /\ WF_vars(IfServiceOkay)
    /\ WF_vars(Sleep)

\* ================================================================ claims
\* ---- vocabulary of the claims, stated independently of the handlers
PendingQueue == "/queue/ReductionPending"
SkippedQueue == "/queue/ReductionSkipped"

\* ids of the runs of one (experiment, run_number)
RunsOf(rs, experiment, run_number) ==
    { k \in 1..Len(rs) : /\ rs[k].experiment = experiment
                         /\ rs[k].run_number = run_number }

\* greatest stored version of (experiment, run_number); -1 when there is none
GreatestVersion(rs, experiment, run_number) ==
    IF RunsOf(rs, experiment, run_number) = {} THEN -1
    ELSE LET vs == { rs[k].run_version : k \in RunsOf(rs, experiment, run_number) }
         IN  CHOOSE v \in vs : \A w \in vs : w <= v

PausedBefore(i) == instruments[i].exists /\ instruments[i].is_paused

\* the step is a call of handler op
Called(op) == result'.op = op
\* the step is a call of handler op that found a run
CalledOnRun(op) == result'.op = op /\ result'.run # 0

\* the step persisted exactly one new run and changed no existing one
OneNewRun == /\ Len(runs') = Len(runs) + 1
             /\ SubSeq(runs', 1, Len(runs)) = runs
NoNewRun == Len(runs') = Len(runs)

SentTo(sent, destination) ==
    { k \in 1..Len(sent) : sent[k].destination = destination }

\* the text attributes of message m are those of run r
TextCopied(r, m) == /\ r.message = m.message
                    /\ r.reduction_log = m.reduction_log
                    /\ r.admin_log = m.admin_log

\* C1: on an instrument that is not paused and has a script, data_ready
\* persists exactly one new run; it is Queued and its version is the greatest
\* version stored for the run number and experiment plus one, "none" counting
\* as -1, so that the first run of a run number has version 0.
C1_DataReadyQueuesNextVersion ==
    [][ ( /\ Called("data_ready")
          /\ ~IsNone(result'.script_text)
          /\ ~PausedBefore(result'.message[1].instrument) )
        => LET m == result'.message[1]
               new == runs'[Len(runs')]
           IN  /\ OneNewRun
               /\ new.status = "Queued"
               /\ new.run_number = m.run_number
               /\ new.experiment = m.rb_number
               /\ new.run_version =
                      GreatestVersion(runs, m.rb_number, m.run_number) + 1
               /\ (RunsOf(runs, m.rb_number, m.run_number) = {}
                      => new.run_version = 0) ]_vars

\* data_ready has just queued version 1 of a run whose version 0 is stored
C1_Witness ==
    /\ result.op = "data_ready"
    /\ result.run # 0
    /\ runs[result.run].status = "Queued"
    /\ runs[result.run].run_version = 1
    /\ \E k \in RunsOf(runs, runs[result.run].experiment,
                       runs[result.run].run_number) : runs[k].run_version = 0

C3_StartedOnlyFromQueuedOrError ==
    [][ CalledOnRun("reduction_started")
        => LET id == result'.run
           IN  /\ NoNewRun
               /\ IF runs[id].status \in {"Queued", "Error"}
                  THEN runs'[id] = [runs[id] EXCEPT !.status = "Processing",
                                                    !.started = Some(utcnow)]
                  ELSE runs' = runs ]_vars

\* reduction_started has just put an Error run into Processing
C3_Witness ==
    /\ result.op = "reduction_started"
    /\ result.run # 0
    /\ runs[result.run].status = "Processing"
    /\ runs[result.run].started = Some(utcnow)
    /\ ~IsNone(runs[result.run].finished)

\* the ReductionLocation records of run id, in the order they were saved
RECURSIVE LocationsOf(_, _)
LocationsOf(locations, id) ==
    IF locations = <<>> THEN <<>>
    ELSE IF Head(locations).reduction_run = id
         THEN <<Head(locations).file_path>> \o LocationsOf(Tail(locations), id)
         ELSE LocationsOf(Tail(locations), id)

\* C4: reduction_complete on a found Processing run sets Completed and
\* finished, copies message, reduction_log and admin_log and saves one
\* ReductionLocation per path of reduction_data (none when it is unset); on
\* a found run in another status it changes nothing and saves no location.
C4_CompleteOnlyFromProcessing ==
    [][ CalledOnRun("reduction_complete")
        => LET id == result'.run
               m == result'.message[1]
               paths == IF IsNone(m.reduction_data) THEN <<>>
                        ELSE m.reduction_data[1]
           IN  IF runs[id].status = "Processing"
               THEN /\ runs' = [runs EXCEPT ![id] =
                                  [runs[id] EXCEPT !.status = "Completed",
                                                   !.finished = Some(utcnow),
                                                   !.message = m.message,
                                                   !.reduction_log = m.reduction_log,
                                                   !.admin_log = m.admin_log]]
                    /\ Len(reduction_locations') =
                           Len(reduction_locations) + Len(paths)
                    /\ SubSeq(reduction_locations', 1, Len(reduction_locations))
                           = reduction_locations
                    /\ \A k \in 1..Len(paths) :
                           reduction_locations'[Len(reduction_locations) + k]
                               = [file_path |-> paths[k], reduction_run |-> id]
               ELSE /\ runs' = runs
                    /\ reduction_locations' = reduction_locations ]_vars

\* reduction_complete has just completed a run with two output paths
C4_Witness ==
    /\ result.op = "reduction_complete"
    /\ result.run # 0
    /\ result.message[1].reduction_data = Some(<<"a.nxs", "b.nxs">>)
    /\ runs[result.run].status = "Completed"
    /\ runs[result.run].message = "boom"
    /\ LocationsOf(reduction_locations, result.run) = <<"a.nxs", "b.nxs">>

\* ---- reduction_error and the retry
\* the step is a reduction_error call that found a run and whose message
\* had retry_in set
ErrorWithRetryIn ==
    /\ CalledOnRun("reduction_error")
    /\ ~IsNone(result'.message[1].retry_in)

\* greatest stored version of the run the call found, before the call
MaxVersionBefore ==
    GreatestVersion(runs, runs[result'.run].experiment,
                    runs[result'.run].run_number)

\* the step scheduled a retry: one new run version, one delayed publish
RetryScheduled ==
    /\ Len(runs') = Len(runs) + 1
    /\ Len(result'.sent) = 1
    /\ result'.sent[1].destination = PendingQueue
    /\ ~IsNone(result'.sent[1].delay)

\* the step published nothing and created no run version
NothingScheduled == result'.sent = <<>> /\ NoNewRun

\* C5 as stated (read for the calls that return normally): with retry_in
\* set, a retry is scheduled exactly when the greatest existing version is
\* at most 4; above 4 nothing is published, no version is created and
\* retry_in is cleared.
C5_RetryExactlyWithinLimit ==
    [][ (ErrorWithRetryIn /\ ~result'.raised)
        => IF MaxVersionBefore <= 4
           THEN RetryScheduled
           ELSE NothingScheduled /\ IsNone(result'.retry_in) ]_vars

\* C5 (amended): with retry_in set, a call that returns normally has
\* scheduled a retry exactly when the greatest existing version is at most 4
\* and the run's cancel flag is unset, and has otherwise published nothing
\* and created no version; retry_in is cleared exactly when the greatest
\* version is above 4; a call that raises has published nothing.
C5_RetryWithinLimitUnlessCancelled ==
    [][ ErrorWithRetryIn
        => LET wanted == MaxVersionBefore <= 4 /\ ~runs[result'.run].cancel
           IN  /\ ~result'.raised =>
                      IF wanted THEN RetryScheduled ELSE NothingScheduled
               /\ result'.raised => wanted /\ result'.sent = <<>>
               /\ IsNone(result'.retry_in) <=> MaxVersionBefore > 4 ]_vars

\* reduction_error with retry_in set has just given up on a run that has six
\* versions: retry_in is cleared, nothing is published
C5_Witness ==
    /\ result.op = "reduction_error"
    /\ result.run # 0
    /\ ~IsNone(result.message[1].retry_in)
    /\ IsNone(result.retry_in)
    /\ result.sent = <<>>
    /\ GreatestVersion(runs, runs[result.run].experiment,
                       runs[result.run].run_number) = 5

\* C6: a retry that is scheduled creates exactly one new run, of the same
\* run number and experiment, with version = the failed run's version + 1,
\* status Queued and started_by = the actor of the message, and publishes it
\* exactly once to reduction-pending with a delay of retry_in * 1000 ms.
C6_RetryIsOneRunOnePublish ==
    [][ ( /\ ErrorWithRetryIn
          /\ MaxVersionBefore <= 4
          /\ ~runs[result'.run].cancel
          /\ ~result'.raised )
        => LET old == runs[result'.run]
               m == result'.message[1]
               new == runs'[Len(runs')]
           IN  /\ Len(runs') = Len(runs) + 1
               /\ \A k \in 1..Len(runs) :
                      k # result'.run => runs'[k] = runs[k]
               /\ new.run_number = old.run_number
               /\ new.experiment = old.experiment
               /\ new.run_version = old.run_version + 1
               /\ new.status = "Queued"
               /\ new.started_by = m.started_by
               /\ Len(result'.sent) = 1
               /\ result'.sent[1].destination = PendingQueue
               /\ result'.sent[1].delay = Some(m.retry_in[1] * 1000)
               /\ result'.sent[1].run_number = new.run_number
               /\ result'.sent[1].rb_number = new.experiment
               /\ result'.sent[1].run_version = new.run_version ]_vars

\* reduction_error with retry_in = 30 has just scheduled the retry of a run
\* for actor 7: its next version is stored and published with delay 30000
C6_Witness ==
    /\ result.op = "reduction_error"
    /\ result.run # 0
    /\ result.message[1].retry_in = Some(30)
    /\ result.message[1].started_by = 7
    /\ Len(result.sent) = 1
    /\ result.sent[1].delay = Some(30000)
    /\ runs[Len(runs)].run_version = runs[result.run].run_version + 1
    /\ runs[Len(runs)].started_by = 7
    /\ runs[result.run].started_by = 0

\* C7: retry_run on a run whose cancel flag is set publishes nothing and
\* creates no run version, whatever retry_in and the actor are.
C7_CancelledRunNotRetried ==
    [][ ( /\ CalledOnRun("reduction_error")
          /\ runs[result'.run].cancel )
        => NothingScheduled /\ ~result'.raised ]_vars

\* reduction_error with retry_in set and within the retry limit has just
\* handled a cancelled run: retry_run was called and did nothing
C7_Witness ==
    /\ result.op = "reduction_error"
    /\ result.run # 0
    /\ runs[result.run].cancel
    /\ ~IsNone(result.message[1].retry_in)
    /\ ~IsNone(result.retry_in)
    /\ GreatestVersion(runs, runs[result.run].experiment,
                       runs[result.run].run_number) <= 4
    /\ result.sent = <<>>

\* ---- finished runs and late messages
Finished == {"Completed", "Skipped", "Error"}

\* C8 as stated: once a run version is Completed, Skipped or Error, no later
\* message changes the status of that version.
C8_FinishedStatusIsFinal ==
    [][ \A id \in 1..Len(runs) :
            runs[id].status \in Finished
                => runs'[id].status = runs[id].status ]_vars

\* C8 (amended): the status of a run version that is Completed, Skipped or
\* Error is changed only by reduction_skipped (to Skipped), by
\* reduction_error (to Error) or by reduction_started taking an Error run of
\* that same version to Processing; reduction_complete never changes it, and
\* a retry leaves the failed version in Error next to the new version.
C8_FinishedStatusChangesOnlyBy ==
    [][ /\ \A id \in 1..Len(runs) :
              ( /\ runs[id].status \in Finished
                /\ runs'[id].status # runs[id].status )
              => /\ id = result'.run
                 /\ \/ /\ result'.op = "reduction_skipped"
                       /\ runs'[id].status = "Skipped"
                    \/ /\ result'.op = "reduction_error"
                       /\ runs'[id].status = "Error"
                    \/ /\ result'.op = "reduction_started"
                       /\ runs[id].status = "Error"
                       /\ runs'[id].status = "Processing"
        /\ (ErrorWithRetryIn /\ Len(runs') = Len(runs) + 1)
              => /\ runs'[result'.run].status = "Error"
                 /\ runs'[Len(runs')].status = "Queued" ]_vars

\* reduction_started or reduction_complete has just been refused by a run
\* that is Completed or Skipped
C8_Witness ==
    /\ result.op \in {"reduction_started", "reduction_complete"}
    /\ result.run # 0
    /\ runs[result.run].status \in {"Completed", "Skipped"}
    /\ ~IsNone(runs[result.run].finished)
    /\ result.log = "error"

\* the four handlers that work on an existing run
LateHandlers ==
    {"reduction_started", "reduction_complete", "reduction_skipped",
     "reduction_error"}

\* the status of the run is not one the handler's message is expected in
\* (for a skip or an error: the run has already finished)
OutOfOrder(op, status) ==
    CASE op = "reduction_started" -> status \notin {"Queued", "Error"}
      [] op = "reduction_complete" -> status # "Processing"
      [] OTHER -> status \in Finished

\* C9 as stated: for each of the four handlers a message that arrives out of
\* order or as a duplicate is detected and leaves the status and the copied
\* fields of the run unchanged.
C9_LateMessagesChangeNothing ==
    [][ \A op \in LateHandlers :
            (CalledOnRun(op) /\ OutOfOrder(op, runs[result'.run].status))
            => /\ runs'[result'.run].status = runs[result'.run].status
               /\ TextCopied(runs'[result'.run], runs[result'.run])
               /\ result'.log = "error" ]_vars

\* C9 (amended): reduction_started and reduction_complete detect a message
\* that arrives out of order or as a duplicate: they log an error and leave
\* the run unchanged; reduction_skipped and reduction_error do not look at
\* the prior status: they overwrite the status, finished and the copied
\* fields of any run they find.
C9_OnlyStartedAndCompleteDetectLate ==
    [][ /\ \A op \in {"reduction_started", "reduction_complete"} :
               (CalledOnRun(op) /\ OutOfOrder(op, runs[result'.run].status))
               => /\ runs' = runs
                  /\ reduction_locations' = reduction_locations
                  /\ result'.log = "error"
        /\ CalledOnRun("reduction_skipped")
               => /\ runs' = [runs EXCEPT ![result'.run] =
                        [@ EXCEPT !.status = "Skipped",
                                  !.finished = Some(utcnow),
                                  !.message = result'.message[1].message,
                                  !.reduction_log = result'.message[1].reduction_log,
                                  !.admin_log = result'.message[1].admin_log]]
                  /\ result'.log = "info"
        /\ CalledOnRun("reduction_error")
               => runs'[result'.run] =
                      [runs[result'.run] EXCEPT
                           !.status = "Error",
                           !.finished = Some(utcnow),
                           !.message = result'.message[1].message,
                           !.reduction_log = result'.message[1].reduction_log,
                           !.admin_log = result'.message[1].admin_log] ]_vars

\* reduction_complete has just been refused by a run that never started
C9_Witness ==
    /\ result.op = "reduction_complete"
    /\ result.run # 0
    /\ runs[result.run].status = "Queued"
    /\ IsNone(runs[result.run].started)
    /\ result.log = "error"

\* C10: no two run records of the store share the same (experiment,
\* run_number, run_version), whatever data_ready and reduction_error / retry
\* messages were delivered, in whatever order.
C10_UniqueTriples ==
    \A i \in 1..Len(runs), j \in 1..Len(runs) :
        ( /\ runs[i].experiment = runs[j].experiment
          /\ runs[i].run_number = runs[j].run_number
          /\ runs[i].run_version = runs[j].run_version ) => i = j

\* reduction_error has just tried to retry a run whose next version was
\* already stored: the store refused the second record
C10_Witness ==
    /\ result.op = "reduction_error"
    /\ result.run # 0
    /\ result.raised
    /\ \E k \in 1..(Len(runs) - 1) :
           /\ runs[k].experiment = runs[result.run].experiment
           /\ runs[k].run_number = runs[result.run].run_number
           /\ runs[k].run_version = runs[result.run].run_version + 1
    /\ runs[Len(runs)].run_version # runs[result.run].run_version + 1

\* ---- data_ready without a script, and with an invalid RB number
\* the step is a data_ready call for which no script was resolved
DataReadyWithoutScript == Called("data_ready") /\ IsNone(result'.script_text)

\* C11: when no script is resolved for the instrument, data_ready persists
\* no run and no DataLocation and publishes nothing; the reduction_error it
\* redirects to looks for the version data_ready has just computed (greatest
\* + 1), finds no run, changes no run and schedules no retry, whether or not
\* retry_in is set (it stays as it was).
C11_NoScriptPersistsNothing ==
    [][ DataReadyWithoutScript
        => LET m == result'.message[1]
           IN  /\ runs' = runs
               /\ data_locations' = data_locations
               /\ reduction_locations' = reduction_locations
               /\ result'.sent = <<>>
               /\ result'.run = 0
               /\ result'.run_version =
                      Some(GreatestVersion(runs, m.rb_number, m.run_number) + 1)
               /\ result'.retry_in = m.retry_in
               /\ result'.log = "error"
               /\ ~result'.raised ]_vars

\* data_ready with retry_in set has just found no script for a run number
\* that already has runs stored: it computed version 2 and stored nothing
C11_Witness ==
    /\ result.op = "data_ready"
    /\ IsNone(result.script_text)
    /\ ~IsNone(result.message[1].retry_in)
    /\ result.run_version = Some(2)
    /\ GreatestVersion(runs, result.message[1].rb_number,
                       result.message[1].run_number) = 1
    /\ result.sent = <<>>

\* why an rb_number of new data is not a positive integer (None: it is one);
\* new data carries a Python int or a text that is not a number
InvalidBecause(rb_number) ==
    IF rb_number.tag = "int" /\ rb_number.i > 0 THEN None
    ELSE IF rb_number.tag = "int"
         THEN Some("RB Number is less than or equal to 0")
         ELSE Some("RB Number is a string")

\* the step is a data_ready call whose rb_number is not a positive integer
DataReadyWithInvalidRB ==
    /\ Called("data_ready")
    /\ ~IsNone(InvalidBecause(result'.message[1].rb_number))

\* the text of the one message published to reduction-skipped
SkippedText(reason) ==
    "Reduction Skipped: " \o reason
        \o ". Assuming run number to be a calibration run."

\* exactly one message was published, to reduction-skipped, with the reason
\* in its text
OneSkippedMessage(sent, reason) ==
    /\ Len(sent) = 1
    /\ sent[1].destination = SkippedQueue
    /\ sent[1].message = SkippedText(reason)

\* C12 as stated: whenever rb_number is not a positive integer, data_ready
\* publishes exactly one message to reduction-skipped carrying the reason
\* and nothing to reduction-pending, paused or not.
C12_InvalidRBAlwaysSkipped ==
    [][ DataReadyWithInvalidRB
        => OneSkippedMessage(result'.sent,
               InvalidBecause(result'.message[1].rb_number)[1]) ]_vars

\* C12 (amended): when a script is resolved and rb_number is not a positive
\* integer, data_ready publishes exactly one message, to reduction-skipped,
\* whose text carries the reason, and nothing to reduction-pending, whether
\* or not the instrument is paused; when no script is resolved it publishes
\* nothing at all.
C12_InvalidRBSkippedWhenScript ==
    [][ DataReadyWithInvalidRB
        => IF IsNone(result'.script_text)
           THEN result'.sent = <<>>
           ELSE /\ OneSkippedMessage(result'.sent,
                       InvalidBecause(result'.message[1].rb_number)[1])
                /\ result'.sent[1].run_number = result'.message[1].run_number
                /\ result'.sent[1].rb_number = result'.message[1].rb_number
                /\ SentTo(result'.sent, PendingQueue) = {} ]_vars

\* data_ready on a paused instrument has just published the skip of a run
\* whose rb_number is a text
C12_Witness ==
    /\ result.op = "data_ready"
    /\ ~IsNone(result.script_text)
    /\ result.message[1].rb_number.tag = "str"
    /\ instruments[result.message[1].instrument].is_paused
    /\ Len(result.sent) = 1
    /\ result.sent[1].destination = SkippedQueue
    /\ result.sent[1].message = SkippedText("RB Number is a string")

\* ---- is_valid_rb
\* the answers of is_valid_rb
NotPositive == Some("RB Number is less than or equal to 0")
NotANumber == Some("RB Number is a string")

\* the value parses as an integer: int() gives one
ParsesAsInteger(v) == ToInt(v).exception = "none"

\* C13 as stated: is_valid_rb returns None exactly for the values that parse
\* as an integer greater than 0 (numeric texts such as "7" included), the
\* "less than or equal to 0" message for those that parse as an integer at
\* most 0 and the "is a string" message for those that do not parse, and it
\* never raises.
C13_IsValidRBTotal ==
    result.op = "is_valid_rb"
        => LET v == result.rb_number
           IN  /\ result.exception = "none"
               /\ result.value =
                      IF ParsesAsInteger(v)
                      THEN IF ToInt(v).value > 0 THEN None ELSE NotPositive
                      ELSE NotANumber
               /\ (v = IntVal(3) => result.value = None)
               /\ (v = IntVal(0) => result.value = NotPositive)
               /\ (v = IntVal(0 - 3) => result.value = NotPositive)
               /\ (v = StrVal(<<"a", "a", "a">>) => result.value = NotANumber)
               /\ (v = StrVal(<<"7">>) => result.value = None)

\* is_valid_rb has just been given an infinite float: int() raised
\* OverflowError, which is_valid_rb does not handle
C13_Witness ==
    /\ result.op = "is_valid_rb"
    /\ result.rb_number = InfVal
    /\ result.exception = "OverflowError"
    /\ IsNone(result.value)

\* is_valid_rb on every value other than an infinite float: it returns, and
\* what it returns is as C13 states
C13_IsValidRBOnFiniteValues ==
    (result.op = "is_valid_rb" /\ result.rb_number.tag # "inf")
        => LET v == result.rb_number
           IN  /\ result.exception = "none"
               /\ result.value =
                      IF ParsesAsInteger(v)
                      THEN IF ToInt(v).value > 0 THEN None ELSE NotPositive
                      ELSE NotANumber

\* ---- the listener
\* the step is the delivery of a message to on_message
Delivered == ~IsNone(result'.destination)
\* ... whose payload could not be decoded into a message
NotPopulated == Delivered /\ result'.handlers = <<>> /\ result'.raised

StoreUnchanged ==
    /\ instruments' = instruments
    /\ experiments' = experiments
    /\ runs' = runs
    /\ data_locations' = data_locations
    /\ reduction_locations' = reduction_locations

\* the handler each destination tag stands for
HandlerFor ==
    [ d \in {"/queue/DataReady", "/queue/ReductionStarted",
             "/queue/ReductionComplete", "/queue/ReductionError",
             "/queue/ReductionSkipped"} |->
        CASE d = "/queue/DataReady" -> "data_ready"
          [] d = "/queue/ReductionStarted" -> "reduction_started"
          [] d = "/queue/ReductionComplete" -> "reduction_complete"
          [] d = "/queue/ReductionError" -> "reduction_error"
          [] OTHER -> "reduction_skipped" ]

\* C14: for every inbound message that decodes, on_message invokes exactly
\* one handler, the one its destination tag stands for, and what that
\* handler does to a run is what is persisted; for a destination it does not
\* know it invokes no handler, logs a warning, and changes and publishes
\* nothing.
C14_OneHandlerByDestination ==
    [][ (Delivered /\ ~NotPopulated)
        => LET d == result'.destination[1]
           IN  IF d \in DOMAIN HandlerFor
               THEN /\ result'.handlers = <<HandlerFor[d]>>
                    /\ (d = "/queue/DataReady" => ~IsNone(result'.run_version))
                    /\ (d # "/queue/DataReady" => NoNewRun \/ d = "/queue/ReductionError")
                    /\ \A id \in 1..Len(runs) :
                           runs'[id].status # runs[id].status
                           => runs'[id].status =
                                  CASE d = "/queue/ReductionStarted" -> "Processing"
                                    [] d = "/queue/ReductionComplete" -> "Completed"
                                    [] d = "/queue/ReductionError" -> "Error"
                                    [] d = "/queue/ReductionSkipped" -> "Skipped"
                                    [] OTHER -> "none"
               ELSE /\ result'.handlers = <<>>
                    /\ result'.listener_log = "warning"
                    /\ StoreUnchanged
                    /\ result'.sent = <<>>
                    /\ ~result'.raised ]_vars

\* a message on a destination that has no handler has just been dropped with
\* a warning, in a store that holds a run
C14_Witness ==
    /\ result.destination = Some("unknown")
    /\ result.handlers = <<>>
    /\ result.listener_log = "warning"
    /\ ~result.raised
    /\ runs # <<>>

\* C15: an exception raised by a handler or by the population of the message
\* does not leave on_message: it is logged as an error, the message is
\* consumed and not delivered again, and the consumer goes on dispatching
\* the messages that follow.
C15_ExceptionStopsAtListener ==
    /\ [][ (Delivered /\ result'.raised)
           => /\ ~result'.escaped
              /\ result'.listener_log = "error"
              /\ ~result'.redelivered
              /\ budget' = budget - 1 ]_vars
    /\ [](( result.raised /\ budget > 0 )
           => ENABLED Unrecognised("unknown", AnyMessage))

\* the retry publish of reduction_error has just failed and raised; the
\* listener logged it and further messages are still to come
C15_Witness ==
    /\ result.handlers = <<"reduction_error">>
    /\ result.raised
    /\ result.log = "error"
    /\ result.listener_log = "error"
    /\ ~result.escaped
    /\ budget > 0

\* ---- reduction_skipped
\* a run record without its finished timestamp (taken anew at every call)
Timeless(run) == [run EXCEPT !.finished = None]

\* the step is a reduction_skipped call that found a run and was given the
\* message the reduction_skipped call just before it was given
SkippedAgain ==
    /\ result.op = "reduction_skipped"
    /\ result.run # 0
    /\ CalledOnRun("reduction_skipped")
    /\ result'.message = result.message

\* C16: a second reduction_skipped with the same message leaves the run as
\* the first call left it (Skipped, the same message and logs; finished is
\* set again) and leaves the rest of the store as it was; neither call
\* publishes a message or creates a run version.
C16_SkippedTwiceIsSkippedOnce ==
    [][ /\ SkippedAgain
           => /\ result'.run = result.run
              /\ Len(runs') = Len(runs)
              /\ \A id \in 1..Len(runs) : Timeless(runs'[id]) = Timeless(runs[id])
              /\ runs'[result'.run].status = "Skipped"
              /\ ~IsNone(runs'[result'.run].finished)
              /\ TextCopied(runs'[result'.run], result'.message[1])
              /\ instruments' = instruments
              /\ experiments' = experiments
              /\ data_locations' = data_locations
              /\ reduction_locations' = reduction_locations
              /\ result.sent = <<>>
        /\ Called("reduction_skipped")
           => /\ result'.sent = <<>>
              /\ NoNewRun
              /\ ~result'.raised ]_vars

\* reduction_skipped has just been called a second time with the same
\* message, with logs and retry_in set, on the same run
C16_Witness ==
    /\ result.op = "reduction_skipped"
    /\ result.again
    /\ result.message[1].reduction_log = "rlog"
    /\ runs[result.run].status = "Skipped"
    /\ runs[result.run].reduction_log = "rlog"
    /\ result.sent = <<>>

\* run as it is after a handler has marked it with status and copied the
\* texts of message m
Marked(run, status, m) ==
    [run EXCEPT !.status = status, !.finished = Some(utcnow),
                !.message = m.message, !.reduction_log = m.reduction_log,
                !.admin_log = m.admin_log]

\* C17: reduction_skipped on a found run sets status Skipped and finished
\* and copies message, reduction_log and admin_log, whatever the status of
\* the run was; it publishes nothing and creates no run version, also when
\* the message has retry_in set.
C17_SkippedMarksAnyRun ==
    [][ CalledOnRun("reduction_skipped")
        => LET id == result'.run
           IN  /\ result'.matched
               /\ runs' = [runs EXCEPT ![id] =
                              Marked(runs[id], "Skipped", result'.message[1])]
               /\ result'.sent = <<>>
               /\ reduction_locations' = reduction_locations
               /\ data_locations' = data_locations ]_vars

\* reduction_skipped with retry_in set has just marked a run that had
\* started before: it is Skipped, carries the texts of the message, and
\* nothing was published
C17_Witness ==
    /\ result.op = "reduction_skipped"
    /\ result.run # 0
    /\ ~IsNone(result.message[1].retry_in)
    /\ ~IsNone(runs[result.run].started)
    /\ runs[result.run].status = "Skipped"
    /\ runs[result.run].message = "boom"
    /\ result.sent = <<>>
    /\ Len(runs) = 1

\* ---- reduction_error
\* C18: reduction_error on a found run sets status Error and finished and
\* copies message, reduction_log and admin_log, whatever the status of the
\* run was and whatever becomes of the retry: with retry_in unset, with the
\* retry limit exceeded, with cancel set, with a retry scheduled, and when
\* the retry raises.
C18_ErrorMarksAnyRun ==
    [][ CalledOnRun("reduction_error")
        => LET id == result'.run
           IN  /\ result'.matched
               /\ runs'[id] = Marked(runs[id], "Error", result'.message[1])
               /\ \A k \in 1..Len(runs) : k # id => runs'[k] = runs[k] ]_vars

\* reduction_error with retry_in set has just marked a run that had started
\* before, and its retry was then scheduled
C18_Witness ==
    /\ result.op = "reduction_error"
    /\ result.run # 0
    /\ ~IsNone(result.message[1].retry_in)
    /\ Len(result.sent) = 1
    /\ runs[result.run].status = "Error"
    /\ runs[result.run].message = "boom"
    /\ ~IsNone(runs[result.run].started)
    /\ Len(runs) = 2

\* ---- messages for a run that does not exist
\* the step is a call of one of the four handlers of an existing run, with a
\* message whose (rb_number, run_number, run_version) no stored run has
CalledForNoRun == result'.op \in LateHandlers /\ ~result'.matched

\* C19: when reduction_started, reduction_complete, reduction_skipped or
\* reduction_error is called for a (rb_number, run_number, run_version) that
\* no run has, the experiment existing or not, no run, experiment,
\* instrument or location record is created or changed, nothing is
\* published, an error is logged and no exception leaves the handler.
C19_NoRunNoChange ==
    [][ CalledForNoRun
        => /\ StoreUnchanged
           /\ result'.run = 0
           /\ result'.sent = <<>>
           /\ result'.log = "error"
           /\ ~result'.raised ]_vars

\* reduction_error has just been called for a run of an experiment that
\* does not exist, in a store that holds no experiment at all
C19_Witness ==
    /\ result.op = "reduction_error"
    /\ ~result.matched
    /\ result.run = 0
    /\ experiments = {}
    /\ runs = <<>>
    /\ result.log = "error"

\* ---- failures inside reduction_complete
\* C20: no failure of the store during reduction_complete leaves the
\* handler: the call returns normally, whether the store answers or fails,
\* and a failure is logged as an error and changes nothing.
C20_CompleteNeverRaises ==
    [][ Called("reduction_complete")
        => /\ ~result'.raised
           /\ result'.listener_log = "info"
           /\ ~result'.store_ok
                 => /\ result'.log = "error"
                    /\ StoreUnchanged
                    /\ result'.sent = <<>> ]_vars

\* the store has just failed under reduction_complete, in a store that
\* holds a run: the failure was logged and the call returned
C20_Witness ==
    /\ result.op = "reduction_complete"
    /\ ~result.store_ok
    /\ result.log = "error"
    /\ ~result.raised
    /\ runs # <<>>

\* ---- a failing publish of the retry
\* the step called the client to publish and nothing was published
PublishFailed == result'.attempts > Len(result'.sent)

\* C21: when the delayed publish of retry_run fails, the failure leaves
\* retry_run and reduction_error (the listener logs it), and the publish
\* was attempted once only: nothing has been published.
C21_FailedPublishIsRaisedOnce ==
    [][ CalledOnRun("reduction_error") /\ PublishFailed
        => /\ result'.raised
           /\ result'.log = "error"
           /\ result'.listener_log = "error"
           /\ result'.attempts = 1
           /\ result'.sent = <<>>
           /\ scheduled' = scheduled ]_vars

\* the publish of a retry has just failed: the new version is stored, the
\* one attempt published nothing and the failure left the handler
C21_Witness ==
    /\ result.op = "reduction_error"
    /\ result.run # 0
    /\ result.attempts = 1
    /\ result.sent = <<>>
    /\ result.raised
    /\ \E k \in 1..Len(runs) :
          /\ runs[k].experiment = runs[result.run].experiment
          /\ runs[k].run_number = runs[result.run].run_number
          /\ runs[k].run_version = runs[result.run].run_version + 1
          /\ runs[k].status = "Queued"

\* ---- run records are never deleted
\* the (experiment, run_number, run_version) triples of the stored runs
Triples(rs) ==
    { << rs[k].experiment, rs[k].run_number, rs[k].run_version >> :
        k \in 1..Len(rs) }

\* C22: no step deletes a run record: every stored run is still stored
\* after the step, under the same id and with the same (experiment,
\* run_number, run_version), so the set of stored triples only grows.
C22_RunsAreNeverDeleted ==
    [][ /\ Len(runs') >= Len(runs)
        /\ \A k \in 1..Len(runs) : SameTriple(runs'[k], runs[k])
        /\ Triples(runs) \subseteq Triples(runs') ]_vars

\* at the end of a sequence of messages, in a store of several versions of
\* one run: the handler has worked on the latest version and the earlier
\* ones are all stored
C22_Witness ==
    /\ budget = 0
    /\ Len(runs) >= 3
    /\ result.run = Len(runs)
    /\ result.op \in {"reduction_error", "reduction_skipped",
                      "reduction_started"}
    /\ runs[Len(runs)].run_version > 0

\* ---- the instrument of a data_ready message
\* C23: after data_ready the instrument named in the message exists and is
\* active, whatever it was before and whichever path data_ready took; its
\* pause flag is as before, and an instrument that was already active is
\* left exactly as it was.
C23_DataReadyActivatesInstrument ==
    [][ Called("data_ready")
        => LET i == result'.message[1].instrument
           IN  /\ instruments'[i].exists
               /\ instruments'[i].is_active
               /\ instruments'[i].is_paused = PausedBefore(i)
               /\ instruments[i].exists /\ instruments[i].is_active
                     => instruments'[i] = instruments[i] ]_vars

\* the first message of a behaviour was a data_ready without a script, for
\* an instrument that was absent or inactive: the instrument is now active
\* although no run was created
C23_Witness ==
    /\ result.op = "data_ready"
    /\ IsNone(result.script_text)
    /\ budget = MaxDeliveries - 1
    /\ runs = <<>>
    /\ instruments[result.message[1].instrument].exists
    /\ instruments[result.message[1].instrument].is_active
    /\ ~instruments[result.message[1].instrument].is_paused

\* ---- cancelling after the retry was scheduled
\* the delayed message that retries run id
RetryMessagesOf(rs, id) ==
    { s \in scheduled : /\ s.rb_number = rs[id].experiment
                        /\ s.run_number = rs[id].run_number
                        /\ s.run_version = rs[id].run_version + 1 }

\* C24: no step withdraws a scheduled delayed message; setting the cancel
\* flag of a run changes that flag and nothing else, so the retry version
\* already created and its delayed message stay; a reduction_error that
\* finds the flag set creates and schedules nothing.
C24_CancelDoesNotUndoRetry ==
    [][ /\ scheduled \subseteq scheduled'
        /\ Called("cancel")
              => /\ scheduled' = scheduled
                 /\ runs' = [runs EXCEPT ![result'.run].cancel = TRUE]
        /\ CalledOnRun("reduction_error") /\ runs[result'.run].cancel
              => /\ scheduled' = scheduled
                 /\ NoNewRun ]_vars

\* a run was cancelled after its retry had been scheduled: the delayed
\* message of the retry and the queued retry version are both still there
C24_Witness ==
    /\ result.op = "cancel"
    /\ runs[result.run].cancel
    /\ runs[result.run].status = "Error"
    /\ RetryMessagesOf(runs, result.run) # {}
    /\ \E k \in 1..Len(runs) :
          /\ runs[k].experiment = runs[result.run].experiment
          /\ runs[k].run_number = runs[result.run].run_number
          /\ runs[k].run_version = runs[result.run].run_version + 1
          /\ runs[k].status = "Queued"
          /\ ~runs[k].cancel

\* ---- what data_ready publishes to reduction-pending
\* the stored runs with the (rb_number, run_number, run_version) of message s
RunsNamedBy(rs, s) ==
    { k \in 1..Len(rs) : /\ rs[k].experiment = s.rb_number
                         /\ rs[k].run_number = s.run_number
                         /\ rs[k].run_version = s.run_version }

\* C25: data_ready publishes to reduction-pending at most once, and once
\* exactly when the instrument is not paused, a script was resolved and
\* rb_number is a positive integer.  The message is the only one published,
\* is not delayed, names the run just persisted by rb_number, run_number and
\* run_version and carries the resolved script and the arguments; that run
\* is the only stored run of that triple, and a reduction_started whose
\* message names a stored triple is given that run.
C25_PendingNamesThePersistedRun ==
    [][ /\ Called("data_ready")
           => LET m == result'.message[1]
                  pending == SentTo(result'.sent, PendingQueue)
              IN  /\ Cardinality(pending) <= 1
                  /\ pending # {}
                        <=> /\ ~PausedBefore(m.instrument)
                            /\ ~IsNone(result'.script_text)
                            /\ IsNone(InvalidBecause(m.rb_number))
                  /\ pending # {}
                        => /\ Len(result'.sent) = 1
                           /\ OneNewRun
                           /\ result'.run = Len(runs')
                           /\ RunsNamedBy(runs', result'.sent[1]) = {result'.run}
                           /\ result'.sent[1].run_version
                                  = GreatestVersion(runs, m.rb_number,
                                                    m.run_number) + 1
                           /\ result'.sent[1].rb_number = m.rb_number
                           /\ result'.sent[1].run_number = m.run_number
                           /\ result'.sent[1].reduction_script
                                  = result'.script_text
                           /\ ~IsNone(result'.sent[1].reduction_arguments)
                           /\ IsNone(result'.sent[1].delay)
                           /\ runs'[result'.run].status = "Queued"
        /\ Called("reduction_started") /\ result'.matched
           => /\ result'.run # 0
              /\ RunsNamedBy(runs, result'.message[1]) = {result'.run} ]_vars

\* data_ready has just published a later version of a run to
\* reduction-pending: the message names the version it persisted
C25_Witness ==
    /\ result.op = "data_ready"
    /\ Len(result.sent) = 1
    /\ result.sent[1].destination = PendingQueue
    /\ result.sent[1].run_version >= 1
    /\ result.run = Len(runs)
    /\ runs[result.run].run_version = result.sent[1].run_version
    /\ runs[result.run].status = "Queued"
    /\ result.sent[1].reduction_script = Some("script")

\* ---- the versions of one run number
\* the (experiment, run_number) pairs that have a stored run
Pairs(rs) == { << rs[k].experiment, rs[k].run_number >> : k \in 1..Len(rs) }

\* the versions stored for each pair are 0..max, each once, and were
\* created in increasing order
GapFree(rs) ==
    /\ \A p \in Pairs(rs) :
          { rs[k].run_version : k \in RunsOf(rs, p[1], p[2]) }
              = 0..GreatestVersion(rs, p[1], p[2])
    /\ \A j, k \in 1..Len(rs) :
          /\ rs[j].experiment = rs[k].experiment
          /\ rs[j].run_number = rs[k].run_number
          /\ j < k
          => rs[j].run_version < rs[k].run_version

\* C26: a step creates at most one run, and a created run has the greatest
\* version stored for its (experiment, run_number) plus one, "none" counting
\* as -1; so the versions of each pair are always exactly 0..max in creation
\* order.  data_ready without a script creates no run, so the next run of
\* that pair gets the version it would have got.
C26_VersionsAreGapFree ==
    /\ [] GapFree(runs)
    /\ [][ /\ Len(runs') <= Len(runs) + 1
           /\ Len(runs') = Len(runs) + 1
                 => LET new == runs'[Len(runs')]
                    IN  /\ result'.op \in {"data_ready", "reduction_error"}
                        /\ new.run_version
                               = GreatestVersion(runs, new.experiment,
                                                 new.run_number) + 1
           /\ DataReadyWithoutScript
                 => /\ NoNewRun
                    /\ \A p \in Pairs(runs) :
                          GreatestVersion(runs', p[1], p[2])
                              = GreatestVersion(runs, p[1], p[2]) ]_vars

\* a retry has just created version 2 of a run number from its failed
\* version 1, the greatest stored
C26_Witness ==
    /\ result.op = "reduction_error"
    /\ Len(result.sent) = 1
    /\ Len(runs) >= 3
    /\ runs[Len(runs)].run_version = 2
    /\ runs[result.run].run_version = 1
    /\ runs[result.run].status = "Error"

\* ---- the scope of version numbering
\* C27: the version data_ready gives a message is the greatest version
\* stored for the message's own (experiment, run_number) plus one; runs of
\* another run number, or of the same run number under another experiment,
\* do not count, and data_ready changes the greatest version of no other
\* pair.
C27_VersionScopedToPair ==
    [][ Called("data_ready")
        => LET m == result'.message[1]
           IN  /\ result'.run_version
                      = Some(GreatestVersion(runs, m.rb_number, m.run_number) + 1)
               /\ result'.run # 0
                     => /\ runs'[result'.run].experiment = m.rb_number
                        /\ runs'[result'.run].run_number = m.run_number
                        /\ runs'[result'.run].run_version = result'.run_version[1]
               /\ \A p \in Pairs(runs) :
                     p # << m.rb_number, m.run_number >>
                        => GreatestVersion(runs', p[1], p[2])
                               = GreatestVersion(runs, p[1], p[2]) ]_vars

\* data_ready has just created version 1 of a run number although the run
\* created just before it was version 0 of the same run number under
\* another experiment
C27_Witness ==
    /\ result.op = "data_ready"
    /\ Len(runs) >= 3
    /\ result.run = Len(runs)
    /\ runs[Len(runs)].run_version = 1
    /\ runs[Len(runs) - 1].run_number = runs[Len(runs)].run_number
    /\ runs[Len(runs) - 1].experiment # runs[Len(runs)].experiment
    /\ runs[Len(runs) - 1].run_version = 0

\* ---- the retry chain ends
\* C28: a reduction_error never creates a run of a version above
\* RetryLimit + 1 = 5, and when the run number of the failed run already
\* has a version of at least 5 it creates and schedules nothing, whichever
\* version the message is for.  Each retry raises the greatest version of
\* its run number by one, so a chain of retries is finite.
C28_RetriesAreBounded ==
    [][ CalledOnRun("reduction_error")
        => /\ \A k \in (Len(runs) + 1)..Len(runs') :
                 runs'[k].run_version <= RetryLimit + 1
           /\ Len(runs') > Len(runs)
                 => GreatestVersion(runs', runs[result'.run].experiment,
                                    runs[result'.run].run_number)
                        = MaxVersionBefore + 1
           /\ MaxVersionBefore >= RetryLimit + 1
                 => /\ NothingScheduled
                    /\ scheduled' = scheduled ]_vars

\* a reduction_error with retry_in set has just been handled for an early
\* version of a run number that already has version 5: nothing was
\* scheduled
C28_Witness ==
    /\ result.op = "reduction_error"
    /\ result.run # 0
    /\ ~IsNone(result.message[1].retry_in)
    /\ runs[result.run].run_version < RetryLimit
    /\ GreatestVersion(runs, runs[result.run].experiment,
                       runs[result.run].run_number) = RetryLimit + 1
    /\ result.sent = <<>>
    /\ scheduled = {}

\* ---- one retry per run version
\* the run the call found already has its next version stored
SuccessorStored ==
    \E k \in 1..Len(runs) :
        /\ runs[k].experiment = runs[result'.run].experiment
        /\ runs[k].run_number = runs[result'.run].run_number
        /\ runs[k].run_version = runs[result'.run].run_version + 1

\* C29: a reduction_error given the message the reduction_error just before
\* it was given, or given a run whose next version is already stored,
\* creates no run version and schedules no delayed publish: of one run
\* version at most one retry version is ever created.
C29_OneRetryPerVersion ==
    [][ CalledOnRun("reduction_error")
        => /\ result'.again
                 => /\ NoNewRun
                    /\ result'.sent = <<>>
                    /\ scheduled' = scheduled
           /\ SuccessorStored
                 => /\ NoNewRun
                    /\ result'.sent = <<>>
                    /\ scheduled' = scheduled
           /\ Len(runs') > Len(runs)
                 => /\ Len(runs') = Len(runs) + 1
                    /\ SameTriple(runs'[Len(runs')],
                                  [runs[result'.run] EXCEPT
                                      !.run_version = @ + 1]) ]_vars

\* the same reduction_error message with retry_in set has just been
\* delivered a second time for a run whose retry is scheduled: the retry
\* version was not created again and nothing was published
C29_Witness ==
    /\ result.op = "reduction_error"
    /\ result.again
    /\ ~IsNone(result.message[1].retry_in)
    /\ ~runs[result.run].cancel
    /\ RetryMessagesOf(runs, result.run) # {}
    /\ GreatestVersion(runs, runs[result.run].experiment,
                       runs[result.run].run_number)
           = runs[result.run].run_version + 1
    /\ result.sent = <<>>

\* ---- the ways into Processing and Completed
\* C30: the status of a stored run becomes Processing only in a
\* reduction_started call that found it Queued or Error, and becomes
\* Completed only in a reduction_complete call that found it Processing;
\* a run is never created Processing or Completed.  So no step takes a run
\* from Queued, Skipped or Error to Completed, nor from Skipped or Completed
\* to Processing.
C30_ProcessingAndCompletedOnlyBy ==
    [][ /\ \A id \in 1..Len(runs) :
              /\ runs'[id].status = "Processing" /\ runs[id].status # "Processing"
                    => /\ result'.op = "reduction_started"
                       /\ result'.run = id
                       /\ runs[id].status \in {"Queued", "Error"}
              /\ runs'[id].status = "Completed" /\ runs[id].status # "Completed"
                    => /\ result'.op = "reduction_complete"
                       /\ result'.run = id
                       /\ runs[id].status = "Processing"
        /\ \A id \in (Len(runs) + 1)..Len(runs') :
              runs'[id].status \in {"Queued", "Skipped"} ]_vars

\* a run that had failed was started again and has just been completed by
\* reduction_complete
C30_Witness ==
    /\ result.op = "reduction_complete"
    /\ result.run # 0
    /\ result.log = "info"
    /\ runs[result.run].status = "Completed"
    /\ runs[result.run].started = Some(utcnow)
    /\ budget = 0
    /\ Len(runs) = 1

\* ---- a queued run completes
\* data_ready has just queued run id on an instrument that is not paused,
\* with a script and a valid rb_number, and the deliveries of its start and
\* its completion are still to come
QueuedForWorker(id) ==
    /\ result.op = "data_ready"
    /\ result.run = id
    /\ id # 0
    /\ ~IsNone(result.script_text)
    /\ IsNone(InvalidBecause(result.message[1].rb_number))
    /\ ~instruments[result.message[1].instrument].is_paused
    /\ runs[id].status = "Queued"
    /\ budget >= 2

\* the deliveries that follow the queueing of a run are about that run: the
\* start names the run data_ready queued, the completion the run started
SameRunFollowed ==
    (/\ result.op \in {"data_ready", "reduction_started"}
     /\ result.run # 0
     /\ result'.op \in {"reduction_started", "reduction_complete"})
        => result'.run = result.run

\* the completion of the run has been handled and the run is Completed
CompletedByWorker ==
    /\ result.op = "reduction_complete"
    /\ result.run # 0
    /\ runs[result.run].status = "Completed"

\* C31: a run queued by data_ready on an instrument that is not paused, with
\* a script and a valid rb_number, whose reduction_started and then
\* reduction_complete messages are delivered with nothing else for it in
\* between, is Completed in the end.
C31_QueuedRunCompletes ==
    /\ [][SameRunFollowed]_vars
    /\ QueuedForWorker(result.run) ~> CompletedByWorker

\* the worker has reported the completion of the run that data_ready queued
\* and reduction_started started in this behaviour: it is Completed
C31_Witness ==
    /\ result.op = "reduction_complete"
    /\ result.run # 0
    /\ result.log = "info"
    /\ runs[result.run].status = "Completed"
    /\ runs[result.run].started = Some(utcnow)
    /\ budget = MaxLiveDeliveries - 3

\* ---- the run of an invalid rb_number
\* the step is a data_ready call whose validation of rb_number fails: a
\* script was resolved and rb_number is not a positive integer
ValidationFails ==
    /\ DataReadyWithInvalidRB
    /\ ~IsNone(result'.script_text)

\* the step is a reduction_skipped call given the message the data_ready
\* call just before it published to reduction-skipped
SkipMessageConsumed ==
    /\ result.op = "data_ready"
    /\ result.run # 0
    /\ Len(result.sent) = 1
    /\ result.sent[1].destination = SkippedQueue
    /\ Called("reduction_skipped")
    /\ ~IsNone(result'.message)
    /\ result'.message[1].rb_number = result.sent[1].rb_number
    /\ result'.message[1].run_number = result.sent[1].run_number
    /\ result'.message[1].run_version = result.sent[1].run_version
    /\ result'.message[1].message = result.sent[1].message

\* C32: when the validation of rb_number fails on an instrument that is
\* not paused, data_ready has persisted the run, Queued, and its
\* DataLocation, and has published one skip message naming that run
\* version; when reduction_skipped is given that message, that run version
\* and no other becomes Skipped with the text of the skip, which carries the
\* reason of the validation, as its message.
C32_InvalidRBRunEndsSkipped ==
    [][ /\ ValidationFails /\ ~PausedBefore(result'.message[1].instrument)
           => LET m == result'.message[1]
              IN  /\ OneNewRun
                  /\ result'.run = Len(runs')
                  /\ runs'[result'.run].status = "Queued"
                  /\ runs'[result'.run].experiment = m.rb_number
                  /\ runs'[result'.run].run_number = m.run_number
                  /\ data_locations'
                         = Append(data_locations,
                                  [file_path |-> m.data,
                                   reduction_run_id |-> result'.run])
                  /\ OneSkippedMessage(result'.sent,
                                       InvalidBecause(m.rb_number)[1])
                  /\ RunsNamedBy(runs', result'.sent[1]) = {result'.run}
        /\ SkipMessageConsumed
           => /\ result'.run = result.run
              /\ runs'[result.run].status = "Skipped"
              /\ runs'[result.run].message = result.sent[1].message
              /\ \E reason \in {NotPositive[1], NotANumber[1]} :
                    runs'[result.run].message = SkippedText(reason)
              /\ \A id \in 1..Len(runs) :
                    id # result.run => runs'[id] = runs[id]
              /\ NoNewRun ]_vars

\* the skip message of a run whose rb_number is 0 has come back: the run
\* data_ready had queued is Skipped and its message is the text of the skip
C32_Witness ==
    /\ result.op = "reduction_skipped"
    /\ result.run # 0
    /\ runs[result.run].experiment = IntVal(0)
    /\ runs[result.run].status = "Skipped"
    /\ runs[result.run].message
           = SkippedText("RB Number is less than or equal to 0")
    /\ IsNone(runs[result.run].started)

\* ---- what a handler leaves alone
\* the stored runs the step changed
ChangedRuns == { id \in 1..Len(runs) : runs'[id] # runs[id] }

\* run id has the (rb_number, run_number, run_version) of message m
NamedBy(run, m) ==
    /\ run.experiment = m.rb_number
    /\ run.run_number = m.run_number
    /\ run.run_version = m.run_version

\* C33: reduction_started, reduction_complete and reduction_skipped create
\* no run and change at most one stored run, the one with the
\* (rb_number, run_number, run_version) of the message; reduction_error
\* changes at most that run and creates at most one run, a further version
\* of the same run number and experiment; data_ready changes no stored run.
C33_OnlyTheNamedRunChanges ==
    [][ /\ result'.op \in {"reduction_started", "reduction_complete",
                           "reduction_skipped", "reduction_error"}
           => /\ ChangedRuns \subseteq {result'.run}
              /\ \A id \in ChangedRuns :
                    NamedBy(runs[id], result'.message[1])
              /\ \A id \in ChangedRuns : SameTriple(runs'[id], runs[id])
        /\ result'.op \in {"reduction_started", "reduction_complete",
                           "reduction_skipped"}
           => NoNewRun
        /\ Called("reduction_error")
           => /\ Len(runs') <= Len(runs) + 1
              /\ Len(runs') = Len(runs) + 1
                    => /\ result'.run # 0
                       /\ runs'[Len(runs')].experiment
                              = runs[result'.run].experiment
                       /\ runs'[Len(runs')].run_number
                              = runs[result'.run].run_number
        /\ Called("data_ready") => ChangedRuns = {} ]_vars

\* reduction_skipped has just marked one version of a run number that has
\* several: the version before it is as it was, still Queued
C33_Witness ==
    /\ result.op = "reduction_skipped"
    /\ result.run >= 2
    /\ runs[result.run].status = "Skipped"
    /\ runs[result.run - 1].run_number = runs[result.run].run_number
    /\ runs[result.run - 1].experiment = runs[result.run].experiment
    /\ runs[result.run - 1].status = "Queued"
    /\ IsNone(runs[result.run - 1].finished)

\* ---- a location that cannot be saved
\* the step is a reduction_complete call in which the store refused the
\* save of a ReductionLocation
LocationSaveFailed == Called("reduction_complete") /\ result'.failed_save > 0

\* C34: when the store refuses the k-th ReductionLocation of a
\* reduction_complete, the stored run is unchanged, still Processing, the
\* k-1 locations saved before it stay, and the failure is logged inside the
\* handler: nothing is raised, and the message is consumed and not
\* delivered again.
C34_FailedLocationLeavesProcessing ==
    [][ LocationSaveFailed
        => LET id == result'.run
               k == result'.failed_save
               paths == result'.message[1].reduction_data[1]
           IN  /\ id # 0
               /\ runs[id].status = "Processing"
               /\ runs' = runs
               /\ reduction_locations'
                      = reduction_locations
                          \o [j \in 1..(k - 1) |->
                                 [file_path |-> paths[j], reduction_run |-> id]]
               /\ result'.log = "error"
               /\ ~result'.raised
               /\ result'.listener_log = "info"
               /\ ~result'.escaped
               /\ ~result'.redelivered
               /\ budget' = budget - 1
               /\ result'.sent = <<>> ]_vars

\* the store has just refused the second location of a completing run: the
\* run is still Processing and the first location is stored
C34_Witness ==
    /\ result.op = "reduction_complete"
    /\ result.failed_save = 2
    /\ runs[result.run].status = "Processing"
    /\ runs[result.run].started = Some(utcnow)
    /\ LocationsOf(reduction_locations, result.run) = <<"a.nxs">>

\* ---- what a failed publish leaves behind
\* C35: when the delayed publish of retry_run fails, the run the message
\* names is stored with status Error and the texts of the message, the
\* retry version created before the publish is stored, Queued, as the next
\* version of that run, and no message for it is scheduled or was published.
C35_FailedPublishKeepsRetryVersion ==
    [][ CalledOnRun("reduction_error") /\ PublishFailed
        => LET id == result'.run
               new == runs'[Len(runs')]
           IN  /\ runs'[id] = Marked(runs[id], "Error", result'.message[1])
               /\ Len(runs') = Len(runs) + 1
               /\ \A k \in 1..Len(runs) : k # id => runs'[k] = runs[k]
               /\ new.status = "Queued"
               /\ new.experiment = runs[id].experiment
               /\ new.run_number = runs[id].run_number
               /\ new.run_version = runs[id].run_version + 1
               /\ result'.sent = <<>>
               /\ \A s \in scheduled' :
                     ~ /\ s.rb_number = new.experiment
                       /\ s.run_number = new.run_number
                       /\ s.run_version = new.run_version ]_vars

\* the publish of the retry of the only run has just failed: the run is
\* Error, its retry version is the second record, Queued, and no delayed
\* message is held for it
C35_Witness ==
    /\ result.op = "reduction_error"
    /\ result.attempts = 1
    /\ result.sent = <<>>
    /\ Len(runs) = 2
    /\ result.run = 1
    /\ runs[1].status = "Error"
    /\ runs[2].status = "Queued"
    /\ runs[2].run_version = runs[1].run_version + 1
    /\ scheduled = {}

\* ---------------------------------------------------------------- C36
\* One step of run(): the loop test goes on to a health check exactly when
\* the exit flag is unset and leaves the loop otherwise; a health check
\* that returns has returned True; the branch on its value is followed by
\* the sleep and the sleep by the loop test; restart_service is not called.
HealthLoopStep ==
    /\ (result.pc = "while" /\ result'.pc # "while")
          => result'.pc = IF result.exit THEN "stopped" ELSE "health_check"
    /\ (result.pc = "health_check" /\ result'.pc # "health_check")
          => \/ result'.pc = "if" /\ result'.service_okay = TRUE
             \/ result'.pc = "raised"
    /\ (result.pc = "if" /\ result'.pc # "if") => result'.pc = "sleep"
    /\ (result.pc = "sleep" /\ result'.pc # "sleep") => result'.pc = "while"
    /\ result'.restarts = 0

====
